---------------------------- MODULE RouterProofs ----------------------------
(***************************************************************************)
(* What holds of the router for any set of clients and filters: its types,  *)
(* the shape of the tree of filters, and that a subscription stays indexed. *)
(***************************************************************************)
EXTENDS Router, SequenceTheorems, FiniteSetTheorems, TLAPS

\* The paths of the tree are cut out of filters: a prefix of a prefix is a
\* prefix, and a filter is its own longest one.
LEMMA PrefixFacts ==
  ASSUME NEW s \in Seq(Level), NEW k \in 1..Len(s)
  PROVE  /\ Prefix(s, k) \in Seq(Level)
         /\ Len(Prefix(s, k)) = k
         /\ \A j \in 1..k : Prefix(Prefix(s, k), j) = Prefix(s, j)
         /\ Prefix(s, Len(s)) = s
<1>1. /\ Prefix(s, k) \in Seq(Level)
      /\ Len(Prefix(s, k)) = k
  BY SubSeqProperties, SMTT(30), Z3T(30) DEF Prefix
<1>2. \A m \in 1..Len(s) : \A i \in 1..m : Prefix(s, m)[i] = s[i]
  BY SubSeqProperties DEF Prefix
<1>3. ASSUME NEW j \in 1..k PROVE Prefix(Prefix(s, k), j) = Prefix(s, j)
  <2> DEFINE p == Prefix(s, k)
  <2>1. Prefix(p, j) \in Seq(Level) /\ Len(Prefix(p, j)) = j
    BY <1>1, SubSeqProperties DEF Prefix
  <2>2. Prefix(s, j) \in Seq(Level) /\ Len(Prefix(s, j)) = j
    BY SubSeqProperties DEF Prefix
  <2>3. \A i \in 1..j : Prefix(p, j)[i] = p[i]
    BY <1>1, SubSeqProperties DEF Prefix
  <2>4. \A i \in 1..j : Prefix(p, j)[i] = Prefix(s, j)[i]
    BY <1>2, <2>3, SMTT(30), Z3T(30)
  <2> HIDE DEF p
  <2>5. Prefix(p, j) = Prefix(s, j)
    BY <2>1, <2>2, <2>4, SeqEqual, Zenon
  <2> QED  BY <2>5 DEF p
<1>4. Prefix(s, Len(s)) = s
  <2>1. Len(s) \in 1..Len(s)
    OBVIOUS
  <2>2. Prefix(s, Len(s)) \in Seq(Level) /\ Len(Prefix(s, Len(s))) = Len(s)
    BY <2>1, SubSeqProperties, SMTT(30), Z3T(30) DEF Prefix
  <2> QED  BY <1>2, <2>1, <2>2, SeqEqual, Zenon
<1> QED  BY <1>1, <1>3, <1>4, Zenon

\* A node on the path of a filter is the prefix of its own length.
LEMMA PathFacts ==
  ASSUME NEW s \in Seq(Level), NEW n \in Path(s)
  PROVE  /\ n \in Seq(Level)
         /\ Len(n) \in 1..Len(s)
         /\ n = Prefix(s, Len(n))
<1>1. PICK k \in 1..Len(s) : n = Prefix(s, k)
  BY DEF Path
<1>2. n \in Seq(Level) /\ Len(n) = k
  BY <1>1, PrefixFacts
<1> QED  BY <1>1, <1>2

\* The path of a node on a path is part of that path.
LEMMA PathTransitive ==
  ASSUME NEW s \in Seq(Level), NEW m \in Path(s), NEW n \in Path(m)
  PROVE  n \in Path(s)
<1>1. m \in Seq(Level) /\ Len(m) \in 1..Len(s) /\ m = Prefix(s, Len(m))
  BY PathFacts
<1>2. Len(n) \in 1..Len(m) /\ n = Prefix(m, Len(n))
  BY <1>1, PathFacts
<1>3. \A j \in 1..Len(m) : Prefix(Prefix(s, Len(m)), j) = Prefix(s, j)
  BY <1>1, PrefixFacts, Zenon
<1>4. n = Prefix(s, Len(n))
  BY <1>1, <1>2, <1>3, Zenon
<1>5. Len(n) \in 1..Len(s)
  BY <1>1, <1>2, SMTT(30), Z3T(30)
<1> QED  BY <1>4, <1>5 DEF Path

\* A filter is a node of its own path.
LEMMA PathEnd ==
  ASSUME NEW s \in Seq(Level), s # <<>>
  PROVE  s \in Path(s)
<1>1. Len(s) \in 1..Len(s)
  OBVIOUS
<1>2. Prefix(s, Len(s)) = s
  BY <1>1, PrefixFacts, Zenon
<1> QED  BY <1>1, <1>2, Zenon DEF Path

Pruned(tree) == tree.nodes = UNION {Path(f) : f \in tree.values}

\* Node::insert adds the filter and exactly the nodes on its way.
LEMMA InsertTree ==
  ASSUME NEW tree, NEW f
  PROVE  /\ insert(tree, f).values = tree.values \cup {f}
         /\ insert(tree, f).nodes = tree.nodes \cup Path(f)
         /\ DOMAIN insert(tree, f) = {"nodes", "values"}
         /\ Pruned(tree) => Pruned(insert(tree, f))
  BY DEF insert, Pruned

\* Node::remove leaves the other filters and no node without a filter below it.
LEMMA RemoveTree ==
  ASSUME NEW tree, NEW f \in Seq(Level), \A g \in tree.values : g \in Seq(Level) /\ g # <<>>,
         Pruned(tree)
  PROVE  Pruned(remove(tree, f))
<1> DEFINE values == tree.values \ {f}
           kept == {n \in tree.nodes : n \in Path(f) => ~(Below(tree.nodes, n) \subseteq Path(f) \ values)}
<1>1. remove(tree, f).values = values /\ remove(tree, f).nodes = kept
  BY DEF remove
<1>2. ASSUME NEW n \in kept PROVE \E g \in values : n \in Path(g)
  <2>1. PICK g \in tree.values : n \in Path(g)
    BY DEF Pruned
  <2>2. CASE g # f
    BY <2>1, <2>2, Zenon
  <2>3. CASE g = f
    <3>1. PICK m \in Below(tree.nodes, n) : m \notin Path(f) \ values
      BY <2>1, <2>3, Zenon
    <3>2. m \in tree.nodes /\ Len(m) >= Len(n) /\ Prefix(m, Len(n)) = n
      BY <3>1, Zenon DEF Below
    <3>3. PICK h \in tree.values : m \in Path(h)
      BY <3>2 DEF Pruned
    <3>4. n \in Seq(Level) /\ Len(n) \in 1..Len(f)
      BY <2>1, <2>3, PathFacts, Zenon
    <3>5. m \in Seq(Level) /\ Len(m) \in Nat
      BY <3>3, PathFacts, SMTT(30), Z3T(30)
    <3>6. n \in Path(m)
      BY <3>2, <3>4, <3>5, SMTT(30), Z3T(30) DEF Path
    <3>7. CASE m \in values
      BY <3>6, <3>7, Zenon
    <3>8. CASE m \notin Path(f)
      <4>1. h # f
        BY <3>3, <3>8, Zenon
      <4>2. n \in Path(h)
        BY <3>3, <3>6, PathTransitive, Zenon
      <4> QED  BY <4>1, <4>2, Zenon
    <3> QED  BY <3>1, <3>7, <3>8, Zenon
  <2> QED  BY <2>2, <2>3, Zenon
<1>3. ASSUME NEW g \in values, NEW n \in Path(g) PROVE n \in kept
  <2>1. n \in tree.nodes /\ g \in tree.nodes /\ g \in Seq(Level)
    BY PathEnd, Zenon DEF Pruned
  <2>2. Len(g) >= Len(n) /\ Prefix(g, Len(n)) = n
    BY <2>1, PathFacts, SMTT(30), Z3T(30)
  <2>3. g \in Below(tree.nodes, n) /\ g \notin Path(f) \ values
    BY <2>1, <2>2, Zenon DEF Below
  <2> QED  BY <2>1, <2>3, Zenon
<1> HIDE DEF values, kept
<1>4. kept = UNION {Path(g) : g \in values}
  BY <1>2, <1>3, Zenon
<1> QED  BY <1>1, <1>4, Zenon DEF Pruned

-----------------------------------------------------------------------------
(* Types *)

\* The type invariant but for the sign of the counters.
Typed ==
  /\ topics \in [nodes : SUBSET Seq(Level), values : SUBSET Filters]
  /\ entries \subseteq Filters
  /\ relations \in [Filters -> [Clients -> Ids \cup {None}]]
  /\ topics_count \in Int
  /\ relations_count \in Int
  /\ task \in [Tasks -> Busy \cup {Idle}]
  /\ id \in [Clients -> Ids]
  /\ subs \in [Filters -> [Clients -> Ids \cup {None}]]
  /\ raced \subseteq Filters

\* Filters are what add parses: sequences of levels, at least one.
LEMMA FilterFacts ==
  ASSUME NEW f \in Filters
  PROVE  f \in Seq(Level) /\ f # <<>>
  BY RouterAssumption, Zenon DEF is_valid

\* The stages of add and remove are stages of a busy task.
LEMMA StageTyped ==
  ASSUME NEW f \in Filters
  PROVE  /\ \A c \in Clients, i \in Ids : Relate(f, c, i) \in Busy
         /\ Stage("drop", f) \in Busy
         /\ Stage("prune", f) \in Busy
  BY DEF Stage, Relate, Busy

\* The empty router has its types.
LEMMA InitTyped == Init => Typed
<1> SUFFICES ASSUME Init PROVE Typed
  OBVIOUS
<1>1. 1 \in Ids
  BY RouterAssumption DEF Ids
<1>2. EmptyTree \in [nodes : SUBSET Seq(Level), values : SUBSET Filters]
  BY DEF EmptyTree
<1> QED  BY <1>1, <1>2, SMTT(30), Z3T(30) DEF Init, Typed, NoSubscriber

\* The history of races is a set of filters.
LEMMA WatchTyped ==
  ASSUME raced \subseteq Filters, Watch
  PROVE  raced' \subseteq Filters
  BY Zenon DEF Watch

\* Every step keeps the types.
LEMMA NextTyped == Typed /\ [Next]_vars => Typed'
<1> SUFFICES ASSUME Typed, [Next]_vars PROVE Typed'
  BY Zenon
<1>1. CASE UNCHANGED vars
  BY <1>1, Zenon DEF vars, Typed
<1>2. ASSUME NEW c \in Clients, renew(c) PROVE Typed'
  <2>1. id'[c] \in Ids /\ id' = [id EXCEPT ![c] = id[c] + 1]
    BY <1>2, RouterAssumption, SMTT(30), Z3T(30) DEF renew, Typed, Ids
  <2>2. id' \in [Clients -> Ids]
    BY <2>1, Zenon DEF Typed
  <2>3. raced' \subseteq Filters
    BY <1>2, WatchTyped, Zenon DEF renew, Typed
  <2> QED  BY <1>2, <2>2, <2>3, Zenon DEF renew, Typed
<1>3. ASSUME NEW t \in Tasks, NEW c \in Clients, NEW i \in Ids, NEW f \in Filters,
             add_topic(t, c, i, f)
      PROVE  Typed'
  <2>1. Path(f) \subseteq Seq(Level)
    BY FilterFacts, PathFacts, Zenon
  <2>2. topics' \in [nodes : SUBSET Seq(Level), values : SUBSET Filters]
    BY <1>3, <2>1, Zenon DEF add_topic, insert, Typed
  <2>3. task' \in [Tasks -> Busy \cup {Idle}]
    BY <1>3, StageTyped, Zenon DEF add_topic, Typed
  <2>4. raced' \subseteq Filters
    BY <1>3, WatchTyped, Zenon DEF add_topic, Typed
  <2> QED  BY <1>3, <2>2, <2>3, <2>4, Zenon DEF add_topic, Typed
<1>4. ASSUME NEW t \in Tasks, NEW c \in Clients, NEW i \in Ids, NEW f \in Filters,
             add_relation(t, c, i, f)
      PROVE  Typed'
  <2>2. /\ relations' \in [Filters -> [Clients -> Ids \cup {None}]]
        /\ subs' \in [Filters -> [Clients -> Ids \cup {None}]]
    BY <1>4, Zenon DEF add_relation, Typed
  <2>3. topics_count' \in Int /\ relations_count' \in Int
    BY <1>4, SMTT(30), Z3T(30) DEF add_relation, Typed
  <2>4. task' \in [Tasks -> Busy \cup {Idle}]
    BY <1>4, Zenon DEF add_relation, Typed
  <2>5. raced' \subseteq Filters
    BY <1>4, WatchTyped, Zenon DEF add_relation, Typed
  <2> QED  BY <1>4, <2>2, <2>3, <2>4, <2>5, Zenon DEF add_relation, Typed
<1>5. ASSUME NEW t \in Tasks, NEW c \in Clients, NEW f \in Filters, NEW i \in Ids,
             remove_relation(t, c, f, i)
      PROVE  Typed'
  <2>1. relations' \in [Filters -> [Clients -> Ids \cup {None}]]
    <3>1. relations' = relations \/ relations' = [relations EXCEPT ![f][c] = None]
      BY <1>5, Zenon DEF remove_relation
    <3>2. relations \in [Filters -> [Clients -> Ids \cup {None}]]
      BY DEF Typed
    <3>3. [relations EXCEPT ![f][c] = None] \in [Filters -> [Clients -> Ids \cup {None}]]
      BY <3>2, Zenon
    <3> QED  BY <3>1, <3>2, <3>3, Zenon
  <2>2. subs' \in [Filters -> [Clients -> Ids \cup {None}]]
    BY <1>5, Zenon DEF remove_relation, Typed
  <2>3. relations_count' \in Int
    BY <1>5, SMTT(30), Z3T(30) DEF remove_relation, Typed
  <2>4. \E w \in Busy \cup {Idle} : task' = task \/ task' = [task EXCEPT ![t] = w]
    BY <1>5, StageTyped, Zenon DEF remove_relation
  <2>5. task' \in [Tasks -> Busy \cup {Idle}]
    BY <2>4, Zenon DEF Typed
  <2>6. raced' \subseteq Filters
    BY <1>5, WatchTyped, Zenon DEF remove_relation, Typed
  <2> QED  BY <1>5, <2>1, <2>2, <2>3, <2>5, <2>6, Zenon DEF remove_relation, Typed
<1>6. ASSUME NEW t \in Tasks, NEW f \in Filters, remove_entry(t, f) PROVE Typed'
  <2>1. relations' \in [Filters -> [Clients -> Ids \cup {None}]]
    BY <1>6, Zenon DEF remove_entry, Typed, NoSubscriber
  <2>2. task' \in [Tasks -> Busy \cup {Idle}]
    BY <1>6, StageTyped, Zenon DEF remove_entry, Typed
  <2>3. topics_count' \in Int
    BY <1>6, SMTT(30), Z3T(30) DEF remove_entry, Typed
  <2>4. raced' \subseteq Filters
    BY <1>6, WatchTyped, Zenon DEF remove_entry, Typed
  <2> QED  BY <1>6, <2>1, <2>2, <2>3, <2>4, Zenon DEF remove_entry, Typed
<1>7. ASSUME NEW t \in Tasks, NEW f \in Filters, remove_topic(t, f) PROVE Typed'
  <2>1. topics' \in [nodes : SUBSET Seq(Level), values : SUBSET Filters]
    BY <1>7, Zenon DEF remove_topic, remove, Typed
  <2>2. task' \in [Tasks -> Busy \cup {Idle}]
    BY <1>7, Zenon DEF remove_topic, Typed
  <2>3. raced' \subseteq Filters
    BY <1>7, WatchTyped, Zenon DEF remove_topic, Typed
  <2> QED  BY <1>7, <2>1, <2>2, <2>3, Zenon DEF remove_topic, Typed
<1> QED  BY <1>1, <1>2, <1>3, <1>4, <1>5, <1>6, <1>7, Zenon DEF Next

-----------------------------------------------------------------------------
(* The tree has the nodes of its filters *)

\* The empty tree has no nodes.
LEMMA InitPruned == Init => TreeIsPruned
  BY SMTT(30), Z3T(30) DEF Init, EmptyTree, TreeIsPruned

\* Only insert and remove change the tree, and both keep it pruned.
LEMMA NextPruned == Typed /\ TreeIsPruned /\ [Next]_vars => TreeIsPruned'
<1> SUFFICES ASSUME Typed, TreeIsPruned, [Next]_vars PROVE TreeIsPruned'
  OBVIOUS
<1>0. Pruned(topics) /\ \A g \in topics.values : g \in Seq(Level) /\ g # <<>>
  BY FilterFacts DEF Typed, TreeIsPruned, Pruned
<1>1. CASE UNCHANGED topics
  BY <1>1, Zenon DEF TreeIsPruned
<1>2. ASSUME NEW f \in Filters, topics' = insert(topics, f) PROVE TreeIsPruned'
  BY <1>0, <1>2, InsertTree, Zenon DEF TreeIsPruned, Pruned
<1>3. ASSUME NEW f \in Filters, topics' = remove(topics, f) PROVE TreeIsPruned'
  BY <1>0, <1>3, FilterFacts, RemoveTree, Zenon DEF TreeIsPruned, Pruned
<1> QED  BY <1>1, <1>2, <1>3, SMTT(30), Z3T(30)
      DEF Next, vars, renew, add_topic, add_relation, remove_relation, remove_entry, remove_topic

-----------------------------------------------------------------------------
(* Subscriptions stay indexed *)

Adding(f) == \E t \in Tasks : At(t, "relate", f)
Cleaning(f) == \E t \in Tasks : At(t, "drop", f) \/ At(t, "prune", f)

\* A relation is in an entry of the map and is the client's subscription; while
\* a filter is being added it is in the tree, and while it is being cleaned up
\* nobody is subscribed to it, the filters that raced excepted.
IndexInv ==
  /\ \A f \in Filters, c \in Clients :
       relations[f][c] # None => f \in entries /\ relations[f][c] = subs[f][c]
  /\ \A f \in Filters : Adding(f) /\ Cleaning(f) => f \in raced
  /\ \A f \in Filters \ raced :
       /\ Adding(f) => f \in topics.values
       /\ Cleaning(f) => \A c \in Clients : subs[f][c] = None
  /\ SubscribedIsIndexed

\* Nobody is subscribed and nothing is in progress at the start.
LEMMA InitIndex == Init => IndexInv
<1> SUFFICES ASSUME Init PROVE IndexInv
  BY Zenon
<1>1. \A f \in Filters : ~Adding(f) /\ ~Cleaning(f)
  BY DEF Init, Adding, Cleaning, At, Idle, Stage
<1> QED  BY <1>1 DEF Init, IndexInv, SubscribedIsIndexed, NoSubscriber

\* A race is recorded when it happens, and for good.
LEMMA WatchFacts ==
  ASSUME Watch
  PROVE  /\ raced \subseteq raced'
         /\ \A f \in Filters : Adding(f)' /\ Cleaning(f)' => f \in raced'
  BY Zenon DEF Watch, Racing, Adding, Cleaning

\* What a step of one task does to the operations in progress.
LEMMA TaskFrame ==
  ASSUME Typed, NEW t \in Tasks, NEW w, task' = [task EXCEPT ![t] = w], NEW g \in Filters
  PROVE  /\ Adding(g)' => Adding(g) \/ (w.stage = "relate" /\ w.filter = g)
         /\ Cleaning(g)' => Cleaning(g) \/ (w.stage \in {"drop", "prune"} /\ w.filter = g)
<1>1. \A d \in Tasks : task'[d] = IF d = t THEN w ELSE task[d]
  BY Zenon DEF Typed
<1> QED  BY <1>1, Zenon DEF Adding, Cleaning, At

\* The stages, and the filters they work on, can be told apart.
LEMMA StageFacts ==
  ASSUME NEW f
  PROVE  /\ Idle.stage \notin {"relate", "drop", "prune"}
         /\ \A s \in {"drop", "prune"} : /\ Stage(s, f).stage # "relate"
                                         /\ Stage(s, f).filter = f
  BY DEF Idle, Stage

\* The same of an add that has been to the tree.
LEMMA RelateFacts ==
  ASSUME NEW f, NEW c, NEW i
  PROVE  /\ Relate(f, c, i).stage \notin {"drop", "prune"}
         /\ Relate(f, c, i).stage = "relate"
         /\ Relate(f, c, i).filter = f
  BY DEF Relate

\* A task that begins to add a filter.
LEMMA AddFrame ==
  ASSUME Typed, NEW t \in Tasks, NEW c, NEW i, NEW f \in Filters, NEW g \in Filters,
         task' = [task EXCEPT ![t] = Relate(f, c, i)]
  PROVE  /\ Adding(g)' => Adding(g) \/ g = f
         /\ Cleaning(g)' => Cleaning(g)
<1>1. /\ Relate(f, c, i).stage \notin {"drop", "prune"}
      /\ Relate(f, c, i).filter = f
  BY RelateFacts, Zenon
<1>2. /\ Adding(g)' => Adding(g) \/ Relate(f, c, i).filter = g
      /\ Cleaning(g)' => Cleaning(g) \/ Relate(f, c, i).stage \in {"drop", "prune"}
  BY TaskFrame, Zenon
<1> QED  BY <1>1, <1>2, Zenon

\* A task that begins, or goes on with, the clean-up of a filter.
LEMMA CleanFrame ==
  ASSUME Typed, NEW t \in Tasks, NEW s \in {"drop", "prune"}, NEW f \in Filters,
         NEW g \in Filters, task' = [task EXCEPT ![t] = Stage(s, f)]
  PROVE  /\ Adding(g)' => Adding(g)
         /\ Cleaning(g)' => Cleaning(g) \/ g = f
<1>1. Stage(s, f).stage # "relate" /\ Stage(s, f).filter = f
  BY StageFacts, Zenon
<1>2. /\ Adding(g)' => Adding(g) \/ Stage(s, f).stage = "relate"
      /\ Cleaning(g)' => Cleaning(g) \/ Stage(s, f).filter = g
  BY TaskFrame, Zenon
<1> QED  BY <1>1, <1>2, Zenon

\* A task that is done.
LEMMA IdleFrame ==
  ASSUME Typed, NEW t \in Tasks, NEW g \in Filters, task' = [task EXCEPT ![t] = Idle]
  PROVE  /\ Adding(g)' => Adding(g)
         /\ Cleaning(g)' => Cleaning(g)
<1>1. Idle.stage # "relate" /\ Idle.stage \notin {"drop", "prune"}
  BY StageFacts, Zenon
<1>2. /\ Adding(g)' => Adding(g) \/ Idle.stage = "relate"
      /\ Cleaning(g)' => Cleaning(g) \/ Idle.stage \in {"drop", "prune"}
  BY TaskFrame, Zenon
<1> QED  BY <1>1, <1>2, Zenon

\* Every step of add and remove keeps the subscriptions indexed.
LEMMA NextIndex == Typed /\ IndexInv /\ [Next]_vars => IndexInv'
<1> SUFFICES ASSUME Typed, IndexInv, [Next]_vars PROVE IndexInv'
  BY Zenon
<1> USE DEF IndexInv, SubscribedIsIndexed
<1>1. CASE UNCHANGED vars
  <2>1. \A f \in Filters : (Adding(f)' <=> Adding(f)) /\ (Cleaning(f)' <=> Cleaning(f))
    BY <1>1, Zenon DEF vars, Adding, Cleaning, At
  <2> QED  BY <1>1, <2>1, ZenonT(60) DEF vars
<1>2. ASSUME NEW c \in Clients, renew(c) PROVE IndexInv'
  <2>1. \A f \in Filters : (Adding(f)' <=> Adding(f)) /\ (Cleaning(f)' <=> Cleaning(f))
    BY <1>2, Zenon DEF renew, Adding, Cleaning, At
  <2>2. raced \subseteq raced' /\ \A f \in Filters : Adding(f)' /\ Cleaning(f)' => f \in raced'
    BY <1>2, WatchFacts, Zenon DEF renew
  <2> QED  BY <1>2, <2>1, <2>2, ZenonT(60) DEF renew
<1>3. ASSUME NEW t \in Tasks, NEW c \in Clients, NEW i \in Ids, NEW f \in Filters,
             add_topic(t, c, i, f)
      PROVE  IndexInv'
  <2>1. \A g \in Filters : /\ Adding(g)' => Adding(g) \/ g = f
                           /\ Cleaning(g)' => Cleaning(g)
    <3>1. task' = [task EXCEPT ![t] = Relate(f, c, i)]
      BY <1>3 DEF add_topic
    <3>2. ASSUME NEW g \in Filters
          PROVE  /\ Adding(g)' => Adding(g) \/ g = f
                 /\ Cleaning(g)' => Cleaning(g)
      <4> HIDE DEF IndexInv, SubscribedIsIndexed
      <4> QED  BY <3>1, AddFrame, ZenonT(60)
    <3> QED  BY <3>2, Zenon
  <2>2. raced \subseteq raced' /\ \A g \in Filters : Adding(g)' /\ Cleaning(g)' => g \in raced'
    BY <1>3, WatchFacts DEF add_topic
  <2>3. topics'.values = topics.values \cup {f}
    BY <1>3, InsertTree DEF add_topic
  <2> QED  BY <1>3, <2>1, <2>2, <2>3, ZenonT(60) DEF add_topic
<1>4. ASSUME NEW t \in Tasks, NEW c \in Clients, NEW i \in Ids, NEW f \in Filters,
             add_relation(t, c, i, f)
      PROVE  IndexInv'
  <2>1. \A g \in Filters : (Adding(g)' => Adding(g)) /\ (Cleaning(g)' => Cleaning(g))
    BY <1>4, IdleFrame, Zenon DEF add_relation
  <2>2. raced \subseteq raced' /\ \A g \in Filters : Adding(g)' /\ Cleaning(g)' => g \in raced'
    BY <1>4, WatchFacts, Zenon DEF add_relation
  <2>3. Adding(f)
    <3>1. task[t].stage = "relate" /\ task[t].filter = f
      <4> HIDE DEF IndexInv, SubscribedIsIndexed
      <4>1. task[t] = Relate(f, c, i)
        BY <1>4, Zenon DEF add_relation
      <4> QED  BY <4>1, SMTT(30), Z3T(30) DEF Relate
    <3> QED  BY <3>1, Zenon DEF Adding, At
  <2>4. f \notin raced' => f \in topics.values /\ ~Cleaning(f)
    BY <2>2, <2>3, Zenon
  <2>5. \A g \in Filters, d \in Clients :
          /\ relations'[g][d] = IF g = f /\ d = c THEN i ELSE relations[g][d]
          /\ subs'[g][d] = IF g = f /\ d = c THEN i ELSE subs[g][d]
    BY <1>4, Zenon DEF add_relation, Typed
  <2>6. entries' = entries \cup {f} /\ topics' = topics
    BY <1>4, Zenon DEF add_relation
  <2> QED  BY <2>1, <2>2, <2>4, <2>5, <2>6
<1>5. ASSUME NEW t \in Tasks, NEW c \in Clients, NEW f \in Filters, NEW i \in Ids,
             remove_relation(t, c, f, i)
      PROVE  IndexInv'
  <2>1. raced \subseteq raced' /\ \A g \in Filters : Adding(g)' /\ Cleaning(g)' => g \in raced'
    BY <1>5, WatchFacts, Zenon DEF remove_relation
  <2>2. entries' = entries /\ topics' = topics /\ i # None
    BY <1>5, SMTT(30), Z3T(30) DEF remove_relation, Ids, None
  <2>3. \A g \in Filters, d \in Clients :
          subs'[g][d] = IF g = f /\ d = c /\ subs[f][c] = i THEN None ELSE subs[g][d]
    BY <1>5, Zenon DEF remove_relation, Typed
  <2>4. CASE f \in entries /\ relations[f][c] = i
    <3>1. subs[f][c] = i
      BY <2>2, <2>4, Zenon
    <3>2. \A g \in Filters, d \in Clients :
            relations'[g][d] = IF g = f /\ d = c THEN None ELSE relations[g][d]
      BY <1>5, <2>4, SMTT(30), Z3T(30) DEF remove_relation, Typed
    <3>3. \A g \in Filters : /\ Adding(g)' => Adding(g)
                             /\ Cleaning(g)' => Cleaning(g) \/ (g = f /\ relations'[f] = NoSubscriber)
      <4>1. task' = [task EXCEPT ![t] = IF relations'[f] = NoSubscriber
                                        THEN Stage("drop", f) ELSE Idle]
        BY <1>5, <2>4, Zenon DEF remove_relation
      <4> HIDE DEF IndexInv, SubscribedIsIndexed
      <4>2. CASE relations'[f] = NoSubscriber
        <5>1. task' = [task EXCEPT ![t] = Stage("drop", f)]
          BY <4>1, <4>2
        <5>2. "drop" \in {"drop", "prune"}
          BY Zenon
        <5> QED  BY <4>2, <5>1, <5>2, CleanFrame, ZenonT(60)
      <4>3. CASE relations'[f] # NoSubscriber
        <5>1. task' = [task EXCEPT ![t] = Idle]
          BY <4>1, <4>3
        <5> QED  BY <5>1, IdleFrame, Zenon
      <4> QED  BY <4>2, <4>3, Zenon
    <3>4. relations'[f] = NoSubscriber => \A d \in Clients : relations'[f][d] = None
      BY DEF NoSubscriber
    <3> QED  BY <2>1, <2>2, <2>3, <3>1, <3>2, <3>3, <3>4, SMTT(30), Z3T(30)
  <2>5. CASE ~(f \in entries /\ relations[f][c] = i)
    <3>1. UNCHANGED <<relations, task>>
      BY <1>5, <2>5, ZenonT(60) DEF remove_relation
    <3>2. \A g \in Filters : (Adding(g)' <=> Adding(g)) /\ (Cleaning(g)' <=> Cleaning(g))
      BY <3>1, Zenon DEF Adding, Cleaning, At
    <3>3. subs[f][c] = i => relations[f][c] = None
      BY <2>2, <2>5, Zenon
    <3> QED  BY <2>1, <2>2, <2>3, <3>1, <3>2, <3>3
  <2> QED  BY <2>4, <2>5, Zenon
<1>6. ASSUME NEW t \in Tasks, NEW f \in Filters, remove_entry(t, f) PROVE IndexInv'
  <2>1. \A g \in Filters : (Adding(g)' => Adding(g)) /\ (Cleaning(g)' => Cleaning(g))
    <3>1. Cleaning(f)
      BY <1>6 DEF remove_entry, Cleaning
    <3>2. task' = [task EXCEPT ![t] = Stage("prune", f)] /\ "prune" \in {"drop", "prune"}
      BY <1>6, Zenon DEF remove_entry
    <3> HIDE DEF IndexInv, SubscribedIsIndexed
    <3> QED  BY <3>1, <3>2, CleanFrame, ZenonT(60)
  <2>2. raced \subseteq raced' /\ \A g \in Filters : Adding(g)' /\ Cleaning(g)' => g \in raced'
    BY <1>6, WatchFacts DEF remove_entry
  <2>3. f \notin raced' => \A d \in Clients : subs[f][d] = None
    BY <1>6, <2>2 DEF remove_entry, Cleaning
  <2>4. \A g \in Filters, d \in Clients :
          relations'[g][d] = IF g = f THEN None ELSE relations[g][d]
    BY <1>6 DEF remove_entry, Typed, NoSubscriber
  <2>5. entries' = entries \ {f} /\ topics' = topics /\ subs' = subs
    BY <1>6, Zenon DEF remove_entry
  <2> QED  BY <2>1, <2>2, <2>3, <2>4, <2>5, SMTT(30), Z3T(30)
<1>7. ASSUME NEW t \in Tasks, NEW f \in Filters, remove_topic(t, f) PROVE IndexInv'
  <2>1. \A g \in Filters : (Adding(g)' => Adding(g)) /\ (Cleaning(g)' => Cleaning(g))
    BY <1>7, IdleFrame, ZenonT(60) DEF remove_topic
  <2>2. raced \subseteq raced' /\ \A g \in Filters : Adding(g)' /\ Cleaning(g)' => g \in raced'
    BY <1>7, WatchFacts, Zenon DEF remove_topic
  <2>3. Cleaning(f)
    BY <1>7, Zenon DEF remove_topic, Cleaning
  <2>4. topics'.values = topics.values \ {f}
    BY <1>7, Zenon DEF remove_topic, remove
  <2>5. UNCHANGED <<entries, relations, subs>>
    BY <1>7, Zenon DEF remove_topic
  <2> QED  BY <2>1, <2>2, <2>3, <2>4, <2>5, SMTT(30), Z3T(30)
<1> QED  BY <1>1, <1>2, <1>3, <1>4, <1>5, <1>6, <1>7, ZenonT(60) DEF Next

-----------------------------------------------------------------------------
(* The tree does not leak filters *)

Served(f) == f \in entries /\ \E c \in Clients : relations[f][c] # None
Worked(f) == \E t \in Tasks : task[t].filter = f

\* NoDeadTopic with the subscriber named.
DeadInv == \A f \in topics.values : Served(f) \/ Worked(f)

\* A filter whose relations are not all empty has a subscriber.
LEMMA ServedFacts ==
  ASSUME Typed, NEW f \in Filters
  PROVE  relations[f] # NoSubscriber <=> \E c \in Clients : relations[f][c] # None
  BY Zenon DEF Typed, NoSubscriber

\* A task that starts or ends work on one filter leaves the others as they are.
LEMMA WorkFrame ==
  ASSUME Typed, NEW t \in Tasks, NEW w, task' = [task EXCEPT ![t] = w], NEW g
  PROVE  /\ w.filter = g => Worked(g)'
         /\ Worked(g) => Worked(g)' \/ task[t].filter = g
<1>1. \A d \in Tasks : task'[d] = IF d = t THEN w ELSE task[d]
  BY Zenon DEF Typed
<1> QED  BY <1>1, Zenon DEF Worked

\* Every step leaves each filter of the tree served or worked on.
LEMMA NextDead == Typed /\ IndexInv /\ DeadInv /\ [Next]_vars => DeadInv'
<1> SUFFICES ASSUME Typed, IndexInv, DeadInv, [Next]_vars, NEW g \in topics'.values, g \in Filters
             PROVE  (Served(g) \/ Worked(g))'
  BY NextTyped, Zenon DEF DeadInv, Typed
<1>0. /\ Idle.filter = <<>> /\ g # <<>>
      /\ \A f \in Filters : /\ Stage("drop", f).filter = f
                           /\ Stage("prune", f).filter = f
  BY FilterFacts, Zenon DEF Idle, Stage
<1>1. CASE UNCHANGED vars
  BY <1>1, Zenon DEF vars, DeadInv, Served, Worked
<1>2. ASSUME NEW c \in Clients, renew(c) PROVE (Served(g) \/ Worked(g))'
  BY <1>2, Zenon DEF renew, DeadInv, Served, Worked
<1>3. ASSUME NEW t \in Tasks, NEW c \in Clients, NEW i \in Ids, NEW f \in Filters,
             add_topic(t, c, i, f)
      PROVE  (Served(g) \/ Worked(g))'
  <2>1. task' = [task EXCEPT ![t] = Relate(f, c, i)] /\ task[t] = Idle
    BY <1>3 DEF add_topic
  <2>2. g = f => Worked(g)'
    <3>1. Relate(f, c, i).filter = f
      BY RelateFacts, Zenon
    <3> QED  BY <2>1, <3>1, WorkFrame, ZenonT(60)
  <2>3. g # f => g \in topics.values
    BY <1>3, InsertTree, SMTT(30), Z3T(30) DEF add_topic
  <2>4. Worked(g) => Worked(g)'
    BY <1>0, <2>1, WorkFrame, ZenonT(60)
  <2>5. Served(g) => Served(g)'
    BY <1>3, Zenon DEF add_topic, Served
  <2> QED  BY <2>2, <2>3, <2>4, <2>5, ZenonT(60) DEF DeadInv
<1>4. ASSUME NEW t \in Tasks, NEW c \in Clients, NEW i \in Ids, NEW f \in Filters,
             add_relation(t, c, i, f)
      PROVE  (Served(g) \/ Worked(g))'
  <2>1. task' = [task EXCEPT ![t] = Idle] /\ task[t] = Relate(f, c, i) /\ topics' = topics
    BY <1>4, Zenon DEF add_relation, At
  <2>2. relations'[f][c] # None /\ f \in entries'
    BY <1>4, SMTT(30), Z3T(30) DEF add_relation, Typed, Ids, None
  <2>3. Served(f)'
    BY <2>2 DEF Served
  <2>4. g # f => (Worked(g) => Worked(g)')
    <3>1. task[t].filter = f
      BY <2>1, SMTT(30), Z3T(30) DEF Relate
    <3> QED  BY <2>1, <3>1, WorkFrame, ZenonT(60)
  <2>5. g # f => (Served(g) => Served(g)')
    BY <1>4 DEF add_relation, Served, Typed
  <2> QED  BY <2>1, <2>3, <2>4, <2>5, Zenon DEF DeadInv
<1>5. ASSUME NEW t \in Tasks, NEW c \in Clients, NEW f \in Filters, NEW i \in Ids,
             remove_relation(t, c, f, i)
      PROVE  (Served(g) \/ Worked(g))'
  <2>1. UNCHANGED <<topics, entries>> /\ task[t] = Idle
    BY <1>5 DEF remove_relation
  <2>2. CASE ~(f \in entries /\ relations[f][c] = i)
    BY <1>5, <2>2 DEF remove_relation, DeadInv, Served, Worked
  <2>3. CASE f \in entries /\ relations[f][c] = i
    <3>1. \A h \in Filters \ {f} : relations'[h] = relations[h]
      BY <1>5, <2>3, Zenon DEF remove_relation, Typed
    <3>2. \E w : task' = [task EXCEPT ![t] = w]
      BY <1>5, <2>3, Zenon DEF remove_relation
    <3>3. Worked(g) => Worked(g)'
      BY <1>0, <2>1, <3>2, WorkFrame, Zenon
    <3>4. g # f => (Served(g) => Served(g)')
      BY <2>1, <3>1, Zenon DEF Served
    <3>5. relations'[f] = NoSubscriber => Worked(f)'
      <4>1. relations'[f] = NoSubscriber => task' = [task EXCEPT ![t] = Stage("drop", f)]
        BY <1>5, <2>3, Zenon DEF remove_relation
      <4> QED  BY <1>0, <4>1, WorkFrame, ZenonT(60)
    <3>6. relations'[f] # NoSubscriber => Served(f)'
      <4>1. Typed'
        BY NextTyped, Zenon
      <4>2. relations'[f] # NoSubscriber => \E d \in Clients : relations'[f][d] # None
        BY <4>1, Zenon DEF Typed, NoSubscriber
      <4> QED  BY <2>1, <2>3, <4>2, ZenonT(60) DEF Served
    <3> QED  BY <2>1, <3>3, <3>4, <3>5, <3>6, SMTT(30) DEF DeadInv
  <2> QED  BY <2>2, <2>3
<1>6. ASSUME NEW t \in Tasks, NEW f \in Filters, remove_entry(t, f) PROVE (Served(g) \/ Worked(g))'
  <2>1. task' = [task EXCEPT ![t] = Stage("prune", f)] /\ task[t].filter = f /\ topics' = topics
    BY <1>6, Zenon DEF remove_entry, At
  <2>2. Worked(f)' /\ (g # f => (Worked(g) => Worked(g)'))
    BY <1>0, <2>1, WorkFrame, ZenonT(60)
  <2>3. g # f => (Served(g) => Served(g)')
    BY <1>6 DEF remove_entry, Served, Typed
  <2> QED  BY <2>1, <2>2, <2>3, ZenonT(60) DEF DeadInv
<1>7. ASSUME NEW t \in Tasks, NEW f \in Filters, remove_topic(t, f) PROVE (Served(g) \/ Worked(g))'
  <2>1. task' = [task EXCEPT ![t] = Idle] /\ task[t].filter = f
    BY <1>7, SMTT(30) DEF remove_topic, At
  <2>2. g # f /\ g \in topics.values
    BY <1>7, Zenon DEF remove_topic, remove
  <2>3. Worked(g) => Worked(g)'
    BY <1>0, <2>1, <2>2, WorkFrame, ZenonT(60)
  <2>4. Served(g) => Served(g)'
    BY <1>7, Zenon DEF remove_topic, Served
  <2> QED  BY <2>2, <2>3, <2>4 DEF DeadInv
<1> QED  BY <1>1, <1>2, <1>3, <1>4, <1>5, <1>6, <1>7, ZenonT(60) DEF Next

-----------------------------------------------------------------------------
(* The counters *)

CountInv ==
  /\ IsFiniteSet(entries)
  /\ IsFiniteSet(Pairs)
  /\ CountersExact

\* The counters start at zero with empty tables.
LEMMA InitCount == Init => CountInv
<1> SUFFICES ASSUME Init PROVE CountInv
  BY Zenon
<1>1. entries = {} /\ Pairs = {}
  BY Zenon DEF Init, Pairs, NoSubscriber
<1> QED  BY <1>1, FS_EmptySet, SMTT(30), Z3T(30) DEF Init, CountInv, CountersExact

\* Every step changes a counter with the table it counts.
LEMMA NextCount == Typed /\ IndexInv /\ CountInv /\ [Next]_vars => CountInv'
<1> SUFFICES ASSUME Typed, IndexInv, CountInv, [Next]_vars PROVE CountInv'
  BY Zenon
<1>0. /\ IsFiniteSet(entries) /\ Cardinality(entries) \in Nat
      /\ IsFiniteSet(Pairs) /\ Cardinality(Pairs) \in Nat
      /\ topics_count = Cardinality(entries)
      /\ relations_count \in Int /\ relations_count >= Cardinality(Pairs)
      /\ raced = {} => relations_count = Cardinality(Pairs)
  BY FS_CardinalityType, Zenon DEF CountInv, CountersExact, Typed
<1>1. CASE UNCHANGED <<entries, relations, topics_count, relations_count>> /\ raced \subseteq raced'
  BY <1>0, <1>1, Zenon DEF CountInv, CountersExact, Pairs
<1>2. ASSUME NEW t \in Tasks, NEW c \in Clients, NEW i \in Ids, NEW f \in Filters,
             add_relation(t, c, i, f)
      PROVE  CountInv'
  <2>1. Pairs' = Pairs \cup {<<f, c>>}
    <3>1. \A g \in Filters, d \in Clients :
            relations'[g][d] = IF g = f /\ d = c THEN i ELSE relations[g][d]
      BY <1>2, Zenon DEF add_relation, Typed
    <3>2. i # None
      BY SMTT(30), Z3T(30) DEF Ids, None
    <3> QED  BY <3>1, <3>2, SMTT(30), Z3T(30) DEF Pairs
  <2>2. relations[f][c] = None <=> <<f, c>> \notin Pairs
    BY DEF Pairs
  <2>3. /\ IsFiniteSet(Pairs')
        /\ Cardinality(Pairs') = IF relations[f][c] = None THEN Cardinality(Pairs) + 1
                                                           ELSE Cardinality(Pairs)
    BY <1>0, <2>1, <2>2, FS_AddElement, Zenon
  <2>4. /\ IsFiniteSet(entries')
        /\ topics_count' = Cardinality(entries')
    BY <1>0, <1>2, FS_AddElement, Zenon DEF add_relation
  <2>5. /\ relations_count' = IF relations[f][c] = None THEN relations_count + 1 ELSE relations_count
        /\ raced \subseteq raced'
    BY <1>2, WatchFacts, Zenon DEF add_relation
  <2> QED  BY <1>0, <2>3, <2>4, <2>5, SMTT(30), Z3T(30) DEF CountInv, CountersExact
<1>3. ASSUME NEW t \in Tasks, NEW c \in Clients, NEW f \in Filters, NEW i \in Ids,
             remove_relation(t, c, f, i),
             f \in entries, relations[f][c] = i
      PROVE  CountInv'
  <2>1. \A g \in Filters, d \in Clients :
          relations'[g][d] = IF g = f /\ d = c THEN None ELSE relations[g][d]
    BY <1>3, SMTT(30), Z3T(30) DEF remove_relation, Typed
  <2>2. Pairs' = Pairs \ {<<f, c>>}
    BY <2>1, SMTT(30), Z3T(30) DEF Pairs
  <2>3. <<f, c>> \in Pairs
    BY <1>3, SMTT(30), Z3T(30) DEF Pairs, Ids, None
  <2>4. IsFiniteSet(Pairs') /\ Cardinality(Pairs') = Cardinality(Pairs) - 1
    BY <1>0, <2>2, <2>3, FS_RemoveElement, Zenon
  <2>5. /\ UNCHANGED <<entries, topics_count>>
        /\ relations_count' = relations_count - 1
        /\ raced \subseteq raced'
    BY <1>3, WatchFacts, Zenon DEF remove_relation
  <2> QED  BY <1>0, <2>4, <2>5, SMTT(30), Z3T(30) DEF CountInv, CountersExact
<1>4. ASSUME NEW t \in Tasks, NEW f \in Filters, remove_entry(t, f) PROVE CountInv'
  <2>1. \A g \in Filters, d \in Clients :
          relations'[g][d] = IF g = f THEN None ELSE relations[g][d]
    BY <1>4, Zenon DEF remove_entry, Typed, NoSubscriber
  <2>2. Pairs' \subseteq Pairs
    BY <2>1, SMTT(30), Z3T(30) DEF Pairs
  <2>3. IsFiniteSet(Pairs') /\ Cardinality(Pairs') \in Nat /\ Cardinality(Pairs') <= Cardinality(Pairs)
    BY <1>0, <2>2, FS_Subset, FS_CardinalityType, Zenon
  <2>4. relations_count' = relations_count /\ raced \subseteq raced'
    BY <1>4, WatchFacts, Zenon DEF remove_entry
  <2>5. raced' = {} => Pairs' = Pairs
    <3>1. Cleaning(f)
      BY <1>4, Zenon DEF remove_entry, Cleaning
    <3>2. raced' = {} => \A d \in Clients : relations[f][d] = None
      BY <2>4, <3>1, Zenon DEF IndexInv
    <3> QED  BY <2>1, <3>2, SMTT(30), Z3T(30) DEF Pairs
  <2>6. IsFiniteSet(entries') /\ topics_count' = Cardinality(entries')
    BY <1>0, <1>4, FS_RemoveElement, Zenon DEF remove_entry
  <2> QED  BY <1>0, <2>3, <2>4, <2>5, <2>6, SMTT(30), Z3T(30) DEF CountInv, CountersExact
<1>5. CASE UNCHANGED vars
  BY <1>1, <1>5, Zenon DEF vars
<1>6. ASSUME NEW c \in Clients, renew(c) PROVE CountInv'
  BY <1>1, <1>6, WatchFacts, ZenonT(60) DEF renew
<1>7. ASSUME NEW t \in Tasks, NEW c \in Clients, NEW i \in Ids, NEW f \in Filters,
             add_topic(t, c, i, f)
      PROVE  CountInv'
  BY <1>1, <1>7, WatchFacts, Zenon DEF add_topic
<1>9. ASSUME NEW t \in Tasks, NEW f \in Filters, remove_topic(t, f) PROVE CountInv'
  BY <1>1, <1>9, WatchFacts, Zenon DEF remove_topic
<1>8. ASSUME NEW t \in Tasks, NEW c \in Clients, NEW f \in Filters, NEW i \in Ids,
             remove_relation(t, c, f, i),
             ~(f \in entries /\ relations[f][c] = i)
      PROVE  CountInv'
  BY <1>1, <1>8, WatchFacts, Zenon DEF remove_relation
<1> QED  BY <1>2, <1>3, <1>4, <1>5, <1>6, <1>7, <1>8, <1>9, Zenon DEF Next

-----------------------------------------------------------------------------
(* Theorems *)

IInv == Typed /\ TreeIsPruned /\ IndexInv /\ DeadInv /\ CountInv

\* The conjunction is inductive: it holds at the start and every step keeps it.
THEOREM Inductive == Spec => []IInv
<1>1. Init => DeadInv
  BY DEF Init, EmptyTree, DeadInv
<1>2. Init => IInv
  BY <1>1, InitTyped, InitPruned, InitIndex, InitCount, Zenon DEF IInv
<1>3. IInv /\ [Next]_vars => IInv'
  BY NextTyped, NextPruned, NextIndex, NextDead, NextCount, ZenonT(60) DEF IInv
<1> QED  BY <1>2, <1>3, PTL DEF Spec

\* The router's state has its types in every reachable state; in particular
\* neither counter ever goes below zero.
THEOREM TypeCorrect == Spec => []TypeOK
<1>1. IInv => TypeOK
  BY FS_CardinalityType, SMTT(30), Z3T(30) DEF IInv, Typed, CountInv, CountersExact, TypeOK
<1> QED  BY <1>1, Inductive, PTL

\* Adding and removing filters keeps exactly the nodes on the way to a stored
\* filter, for any set of filters (Node::insert, Node::remove).
THEOREM TreePruned == Spec => []TreeIsPruned
<1>1. IInv => TreeIsPruned
  BY DEF IInv
<1> QED  BY <1>1, Inductive, PTL

\* A subscription is indexed from the return of add to the call of remove for
\* any number of tasks, clients and filters, the filters that raced excepted.
THEOREM StaysIndexed == Spec => []SubscribedIsIndexed
<1>1. IInv => SubscribedIsIndexed
  BY DEF IInv, IndexInv
<1> QED  BY <1>1, Inductive, PTL

\* Even when operations race, no filter is left behind in the tree.
THEOREM NoTopicLeaks == Spec => []NoDeadTopic
<1>1. IInv => NoDeadTopic
  <2> SUFFICES ASSUME IInv, NEW f \in topics.values
               PROVE  \/ f \in entries /\ relations[f] # NoSubscriber
                      \/ \E t \in Tasks : task[t].filter = f
    BY Zenon DEF NoDeadTopic
  <2>1. f \in Filters /\ (Served(f) \/ Worked(f))
    BY DEF IInv, DeadInv, Typed
  <2> QED  BY <2>1, ServedFacts, Zenon DEF IInv, Served, Worked
<1> QED  BY <1>1, Inductive, PTL

\* The counters the broker reports are what its tables hold, for any number of
\* clients and filters; a race only makes relations_count too large.
THEOREM CountsHold == Spec => []CountersExact
<1>1. IInv => CountersExact
  BY DEF IInv, CountInv
<1> QED  BY <1>1, Inductive, PTL
=============================================================================
