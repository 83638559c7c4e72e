----------------------------- MODULE ClusterStart -----------------------------
(***************************************************************************)
(* How the nodes of ferromq-cluster-raft find each other when they start      *)
(* (ClusterPlugin::start_raft, find_actual_leader, init, Raft::find_leader_   *)
(* info), the health check that ends a node, and check_health.  The raft      *)
(* cluster itself is RaftCluster's subject: here a cluster is a number, and    *)
(* its members learn and lose the leader they know of.                        *)
(***************************************************************************)
EXTENDS Naturals, FiniteSets

CONSTANTS
  SNode,          \* the ids in raft_peer_addrs
  LeaderIds,      \* the values of leader_id tried; 0: none is set
  Rounds,         \* rounds of find_actual_leader, of a node that is not the leader
  MaxUnavailable, \* health.max_continuous_unavailable_count
  MaxSilent       \* bound: queries that nobody answers although someone runs

ASSUME StartAssumption ==
  SNode \subseteq Nat \ {0} /\ IsFiniteSet(SNode) /\ LeaderIds \subseteq SNode \cup {0} /\ Rounds \in Nat
    /\ MaxUnavailable \in Nat /\ MaxSilent \in Nat

VARIABLES
  lcfg,       \* cfg.leader_id
  sat,        \* where start_raft is: "off", "finding", "lead", "join", "member", "failed"
  sround,     \* rounds of find_actual_leader done
  sfound,     \* the leader it was told of, or 0
  cluster,    \* the cluster it is a member of, or 0
  sleader,    \* the leader a member knows of, or 0
  scount,     \* continuous_unavailable_count
  silent,     \* history: queries nobody answered although someone runs
  ended       \* history: a member ended

startVars == <<lcfg, sat, sround, sfound, cluster, sleader, scount, silent, ended>>

Each(v) == [n \in SNode |-> v]

StartInit ==
  /\ lcfg \in LeaderIds
  /\ sat = Each("off") /\ sround = Each(0) /\ sfound = Each(0)
  /\ cluster = Each(0) /\ sleader = Each(0) /\ scount = Each(0)
  /\ silent = 0 /\ ended = FALSE

Members(c) == {n \in SNode : sat[n] = "member" /\ cluster[n] = c}
Running == {n \in SNode : sat[n] = "member"}

\* A cluster that is founded is none of those that have members.
Fresh == CHOOSE c \in 1..Cardinality(SNode) : Members(c) = {}

-----------------------------------------------------------------------------
(* start_raft *)

start(n) ==
  /\ sat[n] = "off"
  /\ sat' = [sat EXCEPT ![n] = "finding"]
  /\ UNCHANGED <<lcfg, sround, sfound, cluster, sleader, scount, silent, ended>>

\* What find_leader_info may come to: the first answer counts, so any of them.
\* A member that knows no leader makes it an error; a node that is not running,
\* or still joining, does not answer.  0: no leader found.
Answers(n) ==
  LET told == {sleader[m] : m \in Running \ {n}}
  IN IF told = {} THEN {0} ELSE told

\* The call timed out on every peer.
Silence(n) == Running \ {n} # {} /\ silent < MaxSilent

Goes(n, at) ==
  /\ sat' = [sat EXCEPT ![n] = at]
  /\ sround' = [sround EXCEPT ![n] = 0]
  /\ UNCHANGED sfound

Leads(n) == Goes(n, "lead")
Fails(n) == Goes(n, "failed")

Again(n) ==
  /\ sround' = [sround EXCEPT ![n] = @ + 1]
  /\ UNCHANGED <<sat, sfound>>

Found(n, l) ==
  /\ sat' = [sat EXCEPT ![n] = "join"] /\ sfound' = [sfound EXCEPT ![n] = l]
  /\ sround' = [sround EXCEPT ![n] = 0]

\* Mutant: with a leader set, a node that finds none leads as well.
NoLeader_leads(n) ==
  IF lcfg # 0 /\ sround[n] < Rounds - 1 THEN Again(n) ELSE Leads(n)

\* No leader was found: without leader_id the node leads at once; the node that
\* leader_id names leads after the last round; any other one gives up then.
NoLeader(n) ==
  IF lcfg # 0 /\ sround[n] < Rounds - 1 THEN Again(n)
  ELSE IF lcfg \in {0, n} THEN Leads(n) ELSE Fails(n)

find_actual_leader(n) ==
  /\ sat[n] = "finding"
  /\ \/ \E l \in Answers(n) :
          /\ IF l # 0 THEN Found(n, l)
             ELSE IF Running \ {n} # {} THEN Fails(n) ELSE NoLeader(n)
          /\ UNCHANGED silent
     \/ Silence(n) /\ NoLeader(n) /\ silent' = silent + 1
  /\ UNCHANGED <<lcfg, cluster, sleader, scount, ended>>

\* Raft::lead, on a thread of its own: the node is a new cluster and its leader.
lead(n) ==
  /\ sat[n] = "lead"
  /\ sat' = [sat EXCEPT ![n] = "member"]
  /\ cluster' = [cluster EXCEPT ![n] = Fresh] /\ sleader' = [sleader EXCEPT ![n] = n]
  /\ UNCHANGED <<lcfg, sround, sfound, scount, silent, ended>>

\* Raft::join: the leader it was told of takes it in; if that node is gone, is
\* itself, or leads no more, the process exits.
join(n) ==
  /\ sat[n] = "join"
  /\ LET l == sfound[n]
     IN IF l # n /\ sat[l] = "member" /\ sleader[l] = l
        THEN /\ sat' = [sat EXCEPT ![n] = "member"]
             /\ cluster' = [cluster EXCEPT ![n] = cluster[l]]
             /\ sleader' = [sleader EXCEPT ![n] = l]
        ELSE /\ sat' = [sat EXCEPT ![n] = "failed"]
             /\ UNCHANGED <<cluster, sleader>>
  /\ sfound' = [sfound EXCEPT ![n] = 0]
  /\ UNCHANGED <<lcfg, sround, scount, silent, ended>>

\* The process that failed is started again.
start_again(n) ==
  /\ sat[n] = "failed"
  /\ sat' = [sat EXCEPT ![n] = "off"]
  /\ UNCHANGED <<lcfg, sround, sfound, cluster, sleader, scount, silent, ended>>

-----------------------------------------------------------------------------
(* Afterwards *)

Leave(n) ==
  /\ sat' = [sat EXCEPT ![n] = "failed"]
  /\ cluster' = [cluster EXCEPT ![n] = 0] /\ sleader' = [sleader EXCEPT ![n] = 0]
  /\ scount' = [scount EXCEPT ![n] = 0]
  /\ ended' = TRUE

\* The process ends: the raft log is in memory, so nothing of it is left.
exits(n) ==
  /\ sat[n] = "member"
  /\ Leave(n)
  /\ UNCHANGED <<lcfg, sround, sfound, silent>>

\* External (raft): the members that miss their leader, and have a majority of
\* the ids, agree on another one; without it each stops knowing one.
elects(n) ==
  /\ sat[n] = "member" /\ sleader[n] \notin Members(cluster[n])
  /\ \/ /\ sleader[n] # 0
        /\ sleader' = [sleader EXCEPT ![n] = 0]
     \/ /\ 2 * Cardinality(Members(cluster[n])) > Cardinality(SNode)
        /\ \E l \in Members(cluster[n]) :
             sleader' = [m \in SNode |-> IF m \in Members(cluster[n]) THEN l ELSE sleader[m]]
  /\ UNCHANGED <<lcfg, sat, sround, sfound, cluster, scount, silent, ended>>

\* start_check_health, with exit_on_node_unavailable: a member that knows no
\* leader is not available (Status::available).
start_check_health(n) ==
  /\ sat[n] = "member"
  /\ IF sleader[n] # 0
     THEN /\ scount[n] > 0 /\ scount' = [scount EXCEPT ![n] = 0]
          /\ UNCHANGED <<sat, cluster, sleader, ended>>
     ELSE IF scount[n] + 1 >= MaxUnavailable THEN Leave(n)
     ELSE /\ scount' = [scount EXCEPT ![n] = @ + 1]
          /\ UNCHANGED <<sat, cluster, sleader, ended>>
  /\ UNCHANGED <<lcfg, sround, sfound, silent>>

\* check_health: the leaders that the nodes that answer know of are one.
check_health(n) == Cardinality({sleader[m] : m \in Running} \ {0}) = 1

StartNext ==
  \E n \in SNode :
    \/ start(n) \/ find_actual_leader(n) \/ lead(n) \/ join(n) \/ start_again(n)
    \/ exits(n) \/ elects(n) \/ start_check_health(n)

StartSpec == StartInit /\ [][StartNext]_startVars

-----------------------------------------------------------------------------
(* Properties *)

\* With leader_id set, the nodes come up as one cluster, in whatever order they
\* start, find each other, give up and are started again: as long as no member
\* ended and no query went unanswered, there is one cluster (start_raft).
\* Otherwise two clusters may form; when each has a leader of its own, the health
\* check of every node that reaches all the others reports it (check_health).
OneClusterOrSeen ==
  \A m, n \in Running :
    cluster[m] # cluster[n] =>
      /\ lcfg = 0 \/ ended \/ silent > 0
      /\ sleader[m] \in Members(cluster[m]) /\ sleader[n] \in Members(cluster[n])
           => \A k \in Running : ~check_health(k)
=============================================================================
