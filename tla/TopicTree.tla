----------------------------- MODULE TopicTree -----------------------------
(***************************************************************************)
(* Topics as sequences of levels, the tree of topic filters of trie.rs, and *)
(* the two ways the broker decides whether a filter matches a topic name:   *)
(* the walk down the tree that routes messages and Topic::matches_str that  *)
(* access rules use.                                                        *)
(***************************************************************************)
EXTENDS Integers, Sequences

CONSTANTS
  Normal,    \* texts of ordinary levels
  Metadata   \* texts of levels that begin with $

Blank == ""
SingleWildcard == "+"
MultiWildcard == "#"

Wildcards == {SingleWildcard, MultiWildcard}

Level == Normal \cup Metadata \cup {Blank} \cup Wildcards

ASSUME LevelAssumption == Normal \cap Metadata = {}
                          /\ ({Blank} \cup Wildcards) \cap (Normal \cup Metadata) = {}

\* Topic::is_valid; splitting a string at / gives at least one level.
is_valid(t) ==
  /\ t # <<>>
  /\ \A k \in DOMAIN t : /\ t[k] = MultiWildcard => k = Len(t)
                         /\ t[k] \in Metadata => k = 1

\* What publishers are assumed to name, as MQTT has it: a topic without wildcards.
\* Topic::from_str only sees to it that the topic is valid.
is_topic_name(t) == is_valid(t) /\ \A k \in DOMAIN t : t[k] \notin Wildcards

-----------------------------------------------------------------------------
(* The meaning of a filter *)

LevelMatches(f, t) == f = SingleWildcard \/ f = t

\* MQTT 4.7: # stands for any number of levels, the parent included, + for one,
\* and a filter that begins with a wildcard matches no topic that begins with $.
Matches(f, t) ==
  LET n == IF f[Len(f)] = MultiWildcard THEN Len(f) - 1 ELSE Len(f)
  IN  /\ IF n < Len(f) THEN Len(t) >= n ELSE Len(t) = n
      /\ \A k \in 1..n : LevelMatches(f[k], t[k])
      /\ ~(f[1] \in Wildcards /\ t[1] \in Metadata)

-----------------------------------------------------------------------------
(* Topic::matches_str *)

\* The levels of the topic are taken one by one.  A + that meets a $ level
\* leaves the loop, and what is left of the filter decides.
matches_str(f, t) ==
  LET Rest(k) == k > Len(f) \/ f[k] = MultiWildcard
      From[k \in 1..(Len(t) + 1)] ==
        IF k > Len(t) THEN Rest(k)
        ELSE IF k > Len(f) THEN FALSE
        ELSE IF f[k] = SingleWildcard /\ t[k] \in Metadata THEN Rest(k + 1)
        ELSE IF f[k] = MultiWildcard THEN t[k] \notin Metadata
        ELSE LevelMatches(f[k], t[k]) /\ From[k + 1]
  IN  From[1]

-----------------------------------------------------------------------------
(* The tree.  A node is named by its path from the root, which is the empty  *)
(* path and always there; values has the paths that hold a value.            *)

EmptyTree == [nodes |-> {}, values |-> {}]

Prefix(f, k) == SubSeq(f, 1, k)

Path(f) == {Prefix(f, k) : k \in 1..Len(f)}

\* Node::insert creates the nodes on the way.
insert(tree, f) ==
  [nodes |-> tree.nodes \cup Path(f), values |-> tree.values \cup {f}]

Below(nodes, n) == {m \in nodes : Len(m) >= Len(n) /\ Prefix(m, Len(n)) = n}

\* Mutant: a node of the path is dropped although it holds a value itself.
remove_valued(tree, f) ==
  LET kept == {n \in tree.nodes : n \in Path(f) => ~(Below(tree.nodes, n) \subseteq Path(f))}
  IN  [nodes |-> kept, values |-> (tree.values \ {f}) \cap kept]

\* Node::remove drops, on the way back to the root, each node of the path that
\* holds no value and has no branch left: nothing remains below it.
remove(tree, f) ==
  LET values == tree.values \ {f}
  IN  [nodes |-> {n \in tree.nodes :
                    n \in Path(f) => ~(Below(tree.nodes, n) \subseteq Path(f) \ values)},
       values |-> values]

\* Mutant: the parent of a # is not matched.
matches_no_parent(tree, t) ==
  LET At(n) == {n} \cap tree.values
      Walk[k \in 1..(Len(t) + 1), n \in tree.nodes \cup {<<>>}] ==
        IF k > Len(t) THEN At(n)
        ELSE LET Into(l) == IF Append(n, l) \in tree.nodes THEN Walk[k + 1, Append(n, l)] ELSE {}
             IN  Into(t[k]) \cup
                 IF n = <<>> /\ t[k] \in Metadata THEN {}
                 ELSE At(Append(n, MultiWildcard)) \cup Into(SingleWildcard)
  IN  Walk[1, <<>>]

\* Node::matches, the filters MatchedIter yields: at the end of the topic the
\* node and its # branch; before it the # branch, the + branch and the branch of
\* the level itself, the wildcards not at the root for a $ topic.
matches(tree, t) ==
  LET At(n) == {n} \cap tree.values
      Walk[k \in 1..(Len(t) + 1), n \in tree.nodes \cup {<<>>}] ==
        IF k > Len(t) THEN At(n) \cup At(Append(n, MultiWildcard))
        ELSE LET Into(l) == IF Append(n, l) \in tree.nodes THEN Walk[k + 1, Append(n, l)] ELSE {}
             IN  Into(t[k]) \cup
                 IF n = <<>> /\ t[k] \in Metadata THEN {}
                 ELSE At(Append(n, MultiWildcard)) \cup Into(SingleWildcard)
  IN  Walk[1, <<>>]
=============================================================================
