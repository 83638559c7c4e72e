---------------------------- MODULE ClusterProofs ----------------------------
(***************************************************************************)
(* Proofs about two protocols between nodes: the start of a raft cluster,  *)
(* for any number of nodes, any leader_id and any number of rounds,        *)
(* failures and restarts; and a client that moves between the nodes of a   *)
(* broadcast cluster, for any number of nodes and connection attempts.     *)
(***************************************************************************)
EXTENDS ClusterStart, BroadcastRegistry, FiniteSetTheorems, TLAPS

-----------------------------------------------------------------------------
(* The start of a raft cluster *)

StartTypeOK ==
  /\ lcfg \in SNode \cup {0}
  /\ sat \in [SNode -> {"off", "finding", "lead", "join", "member", "failed"}]
  /\ sround \in [SNode -> Nat]
  /\ sfound \in [SNode -> SNode \cup {0}]
  /\ cluster \in [SNode -> 0..Cardinality(SNode)]
  /\ sleader \in [SNode -> SNode \cup {0}]
  /\ scount \in [SNode -> Nat]
  /\ silent \in Nat /\ ended \in BOOLEAN
  /\ \A n \in SNode : sat[n] = "join" => sfound[n] # 0

\* While nobody ended and every query was answered, only the node leader_id
\* names founds a cluster, it does so only before anybody is a member, and all
\* members are of that cluster.
OneFounder ==
  lcfg # 0 /\ ~ended /\ silent = 0 =>
    /\ \A n \in SNode : sat[n] = "lead" => n = lcfg /\ Running = {}
    /\ \A m, n \in Running : cluster[m] = cluster[n]

StartInv == StartTypeOK /\ OneFounder

\* A number for a new cluster is left as long as some node is no member.
LEMMA FreshExists ==
  ASSUME StartTypeOK, NEW n \in SNode, sat[n] # "member"
  PROVE  Fresh \in 1..Cardinality(SNode) /\ Members(Fresh) = {}
<1>. DEFINE N == Cardinality(SNode)
            used == {cluster[m] : m \in Running}
<1>1. IsFiniteSet(SNode) /\ N \in Nat
  BY StartAssumption, FS_CardinalityType
<1>2. IsFiniteSet(Running) /\ Cardinality(Running) < N
  <2>1. Running \subseteq SNode /\ Running # SNode
    BY DEF Running
  <2>2. /\ IsFiniteSet(Running) /\ Cardinality(Running) <= N
        /\ N = Cardinality(Running) => SNode = Running
    BY <1>1, <2>1, FS_Subset
  <2>3. Cardinality(Running) \in Nat
    BY <2>2, FS_CardinalityType
  <2>. QED  BY <1>1, <2>1, <2>2, <2>3
<1>3. IsFiniteSet(used) /\ Cardinality(used) <= Cardinality(Running)
  <2>. DEFINE f == [m \in Running |-> cluster[m]]
  <2>1. f \in Surjection(Running, used)
    BY DEF Surjection
  <2>. QED  BY <1>2, <2>1, FS_Surjection
<1>4. IsFiniteSet(1..N) /\ Cardinality(1..N) = N
  BY <1>1, FS_Interval
<1>5. ~(1..N \subseteq used)
  <2>. SUFFICES ASSUME 1..N \subseteq used PROVE FALSE  OBVIOUS
  <2>1. Cardinality(1..N) <= Cardinality(used)
    BY <1>3, FS_Subset, Zenon
  <2>2. Cardinality(used) \in Nat /\ Cardinality(Running) \in Nat
    BY <1>2, <1>3, FS_CardinalityType
  <2>. QED  BY <1>1, <1>2, <1>3, <1>4, <2>1, <2>2, SMTT(30), Z3T(30)
<1>6. \E c \in 1..N : Members(c) = {}
  BY <1>5 DEF Members, Running
<1>. QED  BY <1>6 DEF Fresh

\* The first nodes that start.
LEMMA StartInitInv == StartInit => StartInv
<1>. SUFFICES ASSUME StartInit PROVE StartInv  OBVIOUS
<1>1. Cardinality(SNode) \in Nat
  BY StartAssumption, FS_CardinalityType
<1>2. StartTypeOK
  <2>1. 0 \in 0..Cardinality(SNode) /\ LeaderIds \subseteq SNode \cup {0}
    BY <1>1, StartAssumption
  <2>. QED  BY <2>1, Zenon DEF StartInit, StartTypeOK, Each
<1>3. OneFounder
  BY DEF StartInit, OneFounder, Each, Running
<1>. QED  BY <1>2, <1>3 DEF StartInv

\* What find_actual_leader may come to.
LEMMA FindCases ==
  ASSUME StartTypeOK, NEW n \in SNode, find_actual_leader(n)
  PROVE  \/ \E l \in SNode : Found(n, l) /\ UNCHANGED silent
         \/ Fails(n) /\ silent' \in Nat
         \/ Again(n) /\ silent' \in Nat
         \/ Leads(n) /\ silent' = silent /\ lcfg \in {0, n} /\ Running \ {n} = {}
         \/ Leads(n) /\ silent' = silent + 1
<1>1. ASSUME NEW l \in Answers(n) PROVE l \in SNode \cup {0}
  BY SMTT(30), Z3T(30) DEF Answers, Running, StartTypeOK
<1>. QED  BY <1>1 DEF find_actual_leader, NoLeader, StartTypeOK

\* Every step keeps the types.
LEMMA StartTypes ==
  ASSUME StartTypeOK, [StartNext]_startVars
  PROVE  StartTypeOK'
<1>1. CASE UNCHANGED startVars
  BY <1>1 DEF startVars, StartTypeOK
<1>2. ASSUME NEW n \in SNode, start(n) PROVE StartTypeOK'
  BY <1>2 DEF start, StartTypeOK
<1>3. ASSUME NEW n \in SNode, find_actual_leader(n) PROVE StartTypeOK'
  <2>1. UNCHANGED <<lcfg, cluster, sleader, scount, ended>>
    BY <1>3 DEF find_actual_leader
  <2>2. ASSUME NEW l \in SNode, Found(n, l), UNCHANGED silent PROVE StartTypeOK'
    BY <2>1, <2>2, StartAssumption, Zenon DEF Found, StartTypeOK
  <2>3. ASSUME Fails(n), silent' \in Nat PROVE StartTypeOK'
    BY <2>1, <2>3 DEF Fails, Goes, StartTypeOK
  <2>4. ASSUME Again(n), silent' \in Nat PROVE StartTypeOK'
    BY <2>1, <2>4 DEF Again, StartTypeOK
  <2>5. ASSUME Leads(n), silent' \in Nat PROVE StartTypeOK'
    BY <2>1, <2>5 DEF Leads, Goes, StartTypeOK
  <2>6. silent \in Nat /\ silent + 1 \in Nat
    BY DEF StartTypeOK
  <2>. QED  BY <1>3, <2>2, <2>3, <2>4, <2>5, <2>6, FindCases, Zenon
<1>4. ASSUME NEW n \in SNode, lead(n) PROVE StartTypeOK'
  <2>1. Fresh \in 0..Cardinality(SNode)
    <3>1. Fresh \in 1..Cardinality(SNode)
      BY <1>4, FreshExists DEF lead
    <3>2. Cardinality(SNode) \in Nat
      BY StartAssumption, FS_CardinalityType, Zenon
    <3>. QED  BY <3>1, <3>2
  <2>. QED  BY <1>4, <2>1 DEF lead, StartTypeOK
<1>5. ASSUME NEW n \in SNode, join(n) PROVE StartTypeOK'
  <2>1. sfound[n] \in SNode
    BY <1>5 DEF join, StartTypeOK
  <2>. QED  BY <1>5, <2>1, SMTT(30), Z3T(30) DEF join, StartTypeOK
<1>6. ASSUME NEW n \in SNode, start_again(n) PROVE StartTypeOK'
  BY <1>6 DEF start_again, StartTypeOK
<1>7. 0 \in 0..Cardinality(SNode)
  BY StartAssumption, FS_CardinalityType, SMTT(30), Z3T(30)
<1>8. ASSUME NEW n \in SNode, exits(n) PROVE StartTypeOK'
  BY <1>7, <1>8, Zenon DEF exits, Leave, StartTypeOK
<1>9. ASSUME NEW n \in SNode, elects(n) PROVE StartTypeOK'
  <2>1. UNCHANGED <<lcfg, sat, sround, sfound, cluster, scount, silent, ended>>
    BY <1>9, Zenon DEF elects
  <2>2. sleader' \in [SNode -> SNode \cup {0}]
    BY <1>9 DEF elects, Members, StartTypeOK
  <2>. QED  BY <2>1, <2>2 DEF StartTypeOK
<1>10. ASSUME NEW n \in SNode, start_check_health(n) PROVE StartTypeOK'
  <2>1. UNCHANGED <<lcfg, sround, sfound, silent>>
    BY <1>10, Zenon DEF start_check_health
  <2>2. CASE Leave(n)
    BY <1>7, <2>1, <2>2, Zenon DEF Leave, StartTypeOK
  <2>3. CASE ~Leave(n)
    <3>1. UNCHANGED <<sat, cluster, sleader, ended>>
      BY <1>10, <2>3, Zenon DEF start_check_health
    <3>2. scount' \in [SNode -> Nat]
      BY <1>10, <2>3, SMTT(30), Z3T(30) DEF start_check_health, StartTypeOK
    <3>. QED  BY <2>1, <3>1, <3>2, Zenon DEF StartTypeOK
  <2>. QED  BY <2>2, <2>3, Zenon
<1>. QED  BY <1>1, <1>2, <1>3, <1>4, <1>5, <1>6, <1>8, <1>9, <1>10, Zenon DEF StartNext

\* Every step keeps to one founder.
LEMMA StartNextInv == StartInv /\ [StartNext]_startVars => StartInv'
<1>. SUFFICES ASSUME StartTypeOK, OneFounder, [StartNext]_startVars PROVE OneFounder'
  BY StartTypes DEF StartInv
<1>1. CASE UNCHANGED startVars
  BY <1>1 DEF startVars, OneFounder, Running
<1>2. ASSUME NEW n \in SNode, start(n) PROVE OneFounder'
  BY <1>2 DEF start, OneFounder, Running, StartTypeOK
<1>3. ASSUME NEW n \in SNode, find_actual_leader(n) PROVE OneFounder'
  <2>1. UNCHANGED <<lcfg, cluster, ended>> /\ sat[n] = "finding"
    BY <1>3, Zenon DEF find_actual_leader
  <2>2. ASSUME NEW l \in SNode, Found(n, l), UNCHANGED silent PROVE OneFounder'
    BY <2>1, <2>2, Zenon DEF Found, StartTypeOK, OneFounder, Running
  <2>3. Fails(n) \/ Again(n) => Running' = Running /\ \A m \in SNode : sat'[m] = "lead" => sat[m] = "lead"
    BY <2>1, Zenon DEF Fails, Goes, Again, StartTypeOK, Running
  <2>4. silent' = 0 => silent = 0
    BY <1>3 DEF find_actual_leader, StartTypeOK
  <2>5. ASSUME Fails(n) \/ Again(n) PROVE OneFounder'
    BY <2>1, <2>3, <2>4, <2>5, Zenon DEF OneFounder
  <2>6. ASSUME Leads(n), silent' = silent, lcfg \in {0, n}, Running \ {n} = {} PROVE OneFounder'
    BY <2>1, <2>6, ZenonT(60) DEF Leads, Goes, StartTypeOK, OneFounder, Running
  <2>7. ASSUME silent' = silent + 1 PROVE OneFounder'
    BY <2>7, SMTT(30), Z3T(30) DEF StartTypeOK, OneFounder
  <2>. QED  BY <1>3, <2>2, <2>5, <2>6, <2>7, FindCases, Zenon
<1>4. ASSUME NEW n \in SNode, lead(n) PROVE OneFounder'
  BY <1>4, Zenon DEF lead, StartTypeOK, OneFounder, Running
<1>5. ASSUME NEW n \in SNode, join(n) PROVE OneFounder'
  <2>1. sfound[n] \in SNode
    BY <1>5, Zenon DEF join, StartTypeOK
  <2>. QED  BY <1>5, <2>1, SMTT(30), Z3T(30) DEF join, StartTypeOK, OneFounder, Running
<1>6. ASSUME NEW n \in SNode, start_again(n) PROVE OneFounder'
  BY <1>6, Zenon DEF start_again, StartTypeOK, OneFounder, Running
<1>7. ASSUME NEW n \in SNode, exits(n) PROVE OneFounder'
  BY <1>7, Zenon DEF exits, Leave, OneFounder
<1>8. ASSUME NEW n \in SNode, elects(n) PROVE OneFounder'
  BY <1>8, Zenon DEF elects, OneFounder, Running
<1>9. ASSUME NEW n \in SNode, start_check_health(n) PROVE OneFounder'
  BY <1>9 DEF start_check_health, Leave, OneFounder, Running
<1>. QED  BY <1>1, <1>2, <1>3, <1>4, <1>5, <1>6, <1>7, <1>8, <1>9, Zenon DEF StartNext

\* Every variable of the starting nodes keeps its type, and only one node founds
\* a cluster while nobody ended and every query was answered (start_raft).
THEOREM OnlyOneFounds == StartSpec => []StartInv
BY StartInitInv, StartNextInv, PTL DEF StartSpec

\* Two leaders of two clusters are two to whoever asks them.
LEMMA TwoLeadersSeen ==
  ASSUME StartTypeOK, NEW m \in Running, NEW n \in Running, cluster[m] # cluster[n],
         sleader[m] \in Members(cluster[m]), sleader[n] \in Members(cluster[n]), NEW k
  PROVE  ~check_health(k)
<1>. DEFINE S == {sleader[j] : j \in Running} \ {0}
<1>1. sleader[m] # sleader[n] /\ sleader[m] \in S /\ sleader[n] \in S
  BY StartAssumption, Zenon DEF Members, StartTypeOK
<1>2. Cardinality(S) # 1
  <2>. SUFFICES ASSUME Cardinality(S) = 1 PROVE FALSE  BY Zenon
  <2>1. IsFiniteSet(S)
    <3>1. S \subseteq SNode
      BY DEF Running, StartTypeOK
    <3>. QED  BY <3>1, StartAssumption, FS_Subset, Zenon
  <2>2. \E x : S = {x}
    BY <2>1, FS_Singleton, Zenon
  <2>. QED  BY <1>1, <2>2, Zenon
<1>. QED  BY <1>2, Zenon DEF check_health

\* However the nodes start, give up, end and come back, two clusters form only
\* where leader_id names none, a member ended or a query went unanswered, and
\* when each of them has a leader the health check of every member shows it.
THEOREM ClustersAreOneOrSeen == StartSpec => []OneClusterOrSeen
<1>1. StartInv => OneClusterOrSeen
  <2>. SUFFICES ASSUME StartTypeOK, OneFounder, NEW m \in Running, NEW n \in Running,
                       cluster[m] # cluster[n]
                PROVE  /\ lcfg = 0 \/ ended \/ silent > 0
                       /\ sleader[m] \in Members(cluster[m]) /\ sleader[n] \in Members(cluster[n])
                            => \A k \in Running : ~check_health(k)
    BY DEF StartInv, OneClusterOrSeen
  <2>1. lcfg = 0 \/ ended \/ silent > 0
    BY DEF OneFounder, StartTypeOK
  <2>. QED  BY <2>1, TwoLeadersSeen, Zenon
<1>. QED  BY <1>1, OnlyOneFounds, PTL

-----------------------------------------------------------------------------
(* A client in a broadcast cluster *)

Pcs == {"idle", "locking", "kick", "kicking", "set", "online", "refused"}
Sessions == BAttempts \cup {0}

BrTypeOK ==
  /\ bnodes \in BClusters
  /\ bpeers \in [bnodes -> Sessions]
  /\ blocks \in [bnodes -> Sessions]
  /\ batt \in [BAttempts -> [pc : Pcs, info : Sessions]]
  /\ bkicks \subseteq [i : BAttempts, node : bnodes, pc : {"sent", "locked"}]
  /\ bhad \in [BAttempts -> Sessions]
  /\ bmet \in BOOLEAN
  /\ \A i \in BAttempts : batt[i].pc # "idle" => BAt[i] \in bnodes

\* A kick is on its way to the node n.
Hunted(n) == \E k \in bkicks : k.node = n

\* No two attempts met, and no kick was lost.
Alone == ~bmet /\ blost = {}

\* The kicks under way are those of the attempt under way, and not for its node.
KicksAreOwn ==
  /\ \A i, j \in Busy : i = j
  /\ \A k \in bkicks, i \in Busy : k.i = i
  /\ \A k \in bkicks : k.node # BAt[k.i]
  /\ \A i \in BAttempts : batt[i].pc \in {"locking", "kick"} => bkicks = {}

\* Of two sessions one is about to be kicked; once the kicks are out, each is.
SessionsHunted ==
  /\ \A m, n \in bnodes : bpeers[m] # 0 /\ bpeers[n] # 0 /\ m # n => Hunted(m) \/ Hunted(n)
  /\ \A i \in BAttempts : batt[i].pc \in {"kicking", "set"} =>
       \A n \in bnodes : bpeers[n] # 0 => Hunted(n)

\* What the attempt i finds: one session, the one there was when it started.
Finds(i) ==
  /\ \A m, n \in bnodes : bpeers[m] # 0 /\ bpeers[n] # 0 => m = n
  /\ \A n \in bnodes : bpeers[n] # 0 => bpeers[n] = bhad[i]
  /\ (\A n \in bnodes : bpeers[n] = 0) => bhad[i] = 0

SessionFound ==
  \A i \in BAttempts :
    /\ batt[i].pc \in {"locking", "kick", "kicking"} => Finds(i)
    /\ batt[i].pc = "kicking" => bpeers[BAt[i]] = 0
    /\ Pair(bnodes) /\ batt[i].pc = "set" => \A n \in bnodes : bpeers[n] = 0
    /\ Pair(bnodes) /\ batt[i].pc \in {"set", "online"} => batt[i].info = bhad[i]

BrInv == BrTypeOK /\ (Alone => KicksAreOwn /\ SessionsHunted /\ SessionFound)

-----------------------------------------------------------------------------

\* Before the first attempt the invariant holds.
LEMMA BrInitInv == BrInit => BrInv
<1>. SUFFICES ASSUME BrInit PROVE BrInv  OBVIOUS
<1>1. BrTypeOK
  BY Zenon DEF BrInit, BrTypeOK, Sessions, Pcs
<1>2. KicksAreOwn
  BY Zenon DEF BrInit, KicksAreOwn, Busy
<1>3. SessionsHunted
  BY DEF BrInit, SessionsHunted
<1>4. SessionFound
  BY DEF BrInit, SessionFound
<1>. QED  BY <1>1, <1>2, <1>3, <1>4, Zenon DEF BrInv

\* 0, for no session, is no attempt.
LEMMA NoAttemptZero == \A i \in BAttempts : i # 0
BY BroadcastAssumption

\* Two nodes are all the nodes of a cluster of two.
LEMMA TwoNodes ==
  ASSUME Pair(bnodes), NEW a \in bnodes, NEW b \in bnodes, a # b
  PROVE  \A c \in bnodes : c = a \/ c = b
BY DEF Pair

\* Every step keeps the types.
LEMMA BrTypes == BrTypeOK /\ [BrNext]_brVars => BrTypeOK'
<1>. SUFFICES ASSUME BrTypeOK, [BrNext]_brVars PROVE BrTypeOK'  BY Zenon
<1>. USE DEF Sessions, Pcs
<1>1. ASSUME NEW i \in BAttempts, b_connect(i) PROVE BrTypeOK'
  <2>1. bhad' \in [BAttempts -> Sessions]
    <3>. DEFINE had == IF \E n \in bnodes : bpeers[n] # 0
                       THEN CHOOSE s \in {bpeers[n] : n \in bnodes} : s # 0 ELSE 0
    <3>1. had \in Sessions
      BY DEF BrTypeOK
    <3>2. bhad' = [bhad EXCEPT ![i] = had]
      BY <1>1, Zenon DEF b_connect
    <3>. QED  BY <3>1, <3>2, Zenon DEF BrTypeOK
  <2>. QED  BY <1>1, <2>1, SMTT(30), Z3T(30) DEF b_connect, BrTypeOK
<1>2. ASSUME NEW i \in BAttempts, b_try_lock(i) PROVE BrTypeOK'
  BY <1>2, SMTT(30), Z3T(30) DEF b_try_lock, BrTypeOK
<1>3. ASSUME NEW i \in BAttempts, b_kick(i) PROVE BrTypeOK'
  BY <1>3, SMTT(30), Z3T(30) DEF b_kick, BrTypeOK, KickAt
<1>4. ASSUME NEW i \in BAttempts, b_set(i) PROVE BrTypeOK'
  BY <1>4 DEF b_set, BrTypeOK
<1>5. ASSUME NEW k \in bkicks, b_kick_lock(k) PROVE BrTypeOK'
  BY <1>5, Zenon DEF b_kick_lock, BrTypeOK
<1>6. ASSUME NEW k \in bkicks, b_kick_done(k) PROVE BrTypeOK'
  BY <1>6, Zenon DEF b_kick_done, BrTypeOK
<1>7. ASSUME NEW k \in bkicks, b_kick_fails(k) PROVE BrTypeOK'
  BY <1>7, SMTT(30), Z3T(30) DEF b_kick_fails, BrTypeOK
<1>8. ASSUME NEW n \in bnodes, b_remove(n) PROVE BrTypeOK'
  BY <1>8, Zenon DEF b_remove, BrTypeOK
<1>9. ASSUME UNCHANGED brVars PROVE BrTypeOK'
  BY <1>9 DEF brVars, BrTypeOK
<1>. QED  BY <1>1, <1>2, <1>3, <1>4, <1>5, <1>6, <1>7, <1>8, <1>9, ZenonT(60) DEF BrNext

-----------------------------------------------------------------------------

\* What holds while no two attempts meet and no kick is lost.
BrQuiet == KicksAreOwn /\ SessionsHunted /\ SessionFound

\* A new attempt finds the session there is.
LEMMA ConnectQuiet ==
  ASSUME BrTypeOK, Alone', Alone => BrQuiet, NEW i \in BAttempts, b_connect(i)
  PROVE  BrQuiet'
<1>1. Alone /\ Busy = {} /\ bkicks = {} /\ BrQuiet
  BY Zenon DEF Alone, b_connect, BrTypeOK
<1>2. /\ batt'[i].pc = "locking"
      /\ \A j \in BAttempts : j # i => batt'[j] = batt[j] /\ bhad'[j] = bhad[j]
  BY Zenon DEF b_connect, BrTypeOK
<1>3. /\ \A j \in BAttempts : batt[j].pc \notin {"locking", "kick", "kicking", "set"}
      /\ \A m, n \in bnodes : bpeers[m] # 0 /\ bpeers[n] # 0 => m = n
  BY <1>1 DEF Busy, BrQuiet, SessionsHunted, Hunted
<1>4. Finds(i)'
  <2>. DEFINE had == IF \E n \in bnodes : bpeers[n] # 0
                     THEN CHOOSE s \in {bpeers[n] : n \in bnodes} : s # 0 ELSE 0
  <2>1. /\ \A n \in bnodes : bpeers[n] # 0 => bpeers[n] = had
        /\ (\A n \in bnodes : bpeers[n] = 0) => had = 0
    BY <1>3
  <2>2. bhad'[i] = had
    BY Zenon DEF b_connect, BrTypeOK
  <2>. QED  BY <1>3, <2>1, <2>2, Zenon DEF b_connect, Finds
<1>5. KicksAreOwn'
  BY <1>1, <1>2, <1>3, ZenonT(60) DEF KicksAreOwn, Busy, b_connect
<1>6. SessionsHunted'
  BY <1>1, <1>2, <1>3, ZenonT(60) DEF BrQuiet, SessionsHunted, Hunted, b_connect
<1>7. SessionFound'
  <2>. SUFFICES ASSUME NEW j \in BAttempts
                PROVE  /\ batt'[j].pc \in {"locking", "kick", "kicking"} => Finds(j)'
                       /\ batt'[j].pc \notin {"kicking", "set"}
                       /\ Pair(bnodes) /\ batt'[j].pc = "online" => batt'[j].info = bhad'[j]
    BY Zenon DEF SessionFound, b_connect
  <2>. QED  BY <1>1, <1>2, <1>3, <1>4, Zenon DEF BrQuiet, SessionFound
<1>. QED  BY <1>5, <1>6, <1>7 DEF BrQuiet

\* Taking the lock of the own node, or giving up, leaves sessions and kicks alone.
LEMMA TryLockQuiet ==
  ASSUME BrTypeOK, BrQuiet, NEW i \in BAttempts, b_try_lock(i)
  PROVE  BrQuiet'
<1>1. /\ batt[i].pc = "locking" /\ batt'[i].pc \in {"kick", "refused"}
      /\ \A j \in BAttempts : j # i => batt'[j] = batt[j]
      /\ UNCHANGED <<bnodes, bpeers, bkicks, bmet, bhad, blost>>
  BY SMTT(30), Z3T(30) DEF b_try_lock, BrTypeOK
<1>2. KicksAreOwn'
  BY <1>1, SMTT(30), Z3T(30) DEF BrQuiet, KicksAreOwn, Busy
<1>3. SessionsHunted'
  BY <1>1, Zenon DEF BrQuiet, SessionsHunted, Hunted
<1>4. SessionFound'
  BY <1>1 DEF BrQuiet, SessionFound, Finds
<1>. QED  BY <1>2, <1>3, <1>4, ZenonT(60) DEF BrQuiet

\* A kick ends the session here or is sent to every other node.
LEMMA KickQuiet ==
  ASSUME BrTypeOK, BrQuiet, NEW i \in BAttempts, b_kick(i)
  PROVE  BrQuiet'
<1>1. /\ batt[i].pc = "kick" /\ i \in Busy /\ bkicks = {} /\ BAt[i] \in bnodes
      /\ Finds(i) /\ \A j \in Busy : j = i
      /\ UNCHANGED <<bnodes, bhad>>
  BY DEF b_kick, Busy, BrTypeOK, BrQuiet, KicksAreOwn, SessionFound
<1>2. CASE Here(i)
  <2>1. /\ batt'[i].pc = "set" /\ batt'[i].info = bpeers[BAt[i]]
        /\ \A j \in BAttempts : j # i => batt'[j] = batt[j]
        /\ bkicks' = {}
        /\ \A n \in bnodes : bpeers'[n] = 0
    BY <1>1, <1>2, SMTT(30), Z3T(30) DEF b_kick, BrTypeOK, Here, Finds
  <2>2. batt'[i].info = bhad'[i]
    BY <1>1, <1>2, <2>1, Zenon DEF Finds, Here
  <2>3. KicksAreOwn'
    BY <1>1, <2>1, ZenonT(60) DEF BrQuiet, KicksAreOwn, Busy
  <2>4. SessionsHunted'
    BY <1>1, <2>1, Zenon DEF SessionsHunted
  <2>5. SessionFound'
    <3>1. \A j \in BAttempts : j # i => batt[j].pc \notin {"locking", "kick", "kicking", "set"}
      BY <1>1, Zenon DEF Busy
    <3>. QED  BY <1>1, <2>1, <2>2, <3>1, ZenonT(60) DEF BrQuiet, SessionFound
  <2>. QED  BY <2>3, <2>4, <2>5, Zenon DEF BrQuiet
<1>3. CASE ~Here(i)
  <2>1. /\ batt'[i].pc = "kicking"
        /\ \A j \in BAttempts : j # i => batt'[j] = batt[j]
        /\ bpeers' = bpeers /\ bpeers[BAt[i]] = 0
        /\ bkicks' = {KickAt(i, n, "sent") : n \in bnodes \ {BAt[i]}}
    BY <1>1, <1>3, SMTT(30), Z3T(30) DEF b_kick, BrTypeOK, Here
  <2>2. \A j \in BAttempts : j # i => batt[j].pc \notin {"locking", "kick", "kicking", "set"}
    BY <1>1, Zenon DEF Busy
  <2>3. KicksAreOwn'
    BY <1>1, <2>1, <2>2, SMTT(30), Z3T(30) DEF KicksAreOwn, Busy, KickAt
  <2>4. SessionsHunted'
    <3>1. \A n \in bnodes : n # BAt[i] => Hunted(n)'
      <4>. SUFFICES ASSUME NEW n \in bnodes, n # BAt[i] PROVE \E k \in bkicks' : k.node = n
        BY <1>1, Zenon DEF Hunted
      <4>1. KickAt(i, n, "sent") \in bkicks' /\ KickAt(i, n, "sent").node = n
        BY <2>1, Zenon DEF KickAt
      <4>. QED  BY <4>1, Zenon
    <3>. QED  BY <1>1, <2>1, <3>1, Zenon DEF SessionsHunted
  <2>5. SessionFound'
    BY <1>1, <2>1, <2>2, SMTT(30), Z3T(30) DEF BrQuiet, SessionFound, Finds
  <2>. QED  BY <2>3, <2>4, <2>5, Zenon DEF BrQuiet
<1>. QED  BY <1>2, <1>3, Zenon

\* The session registered is the only one.
LEMMA SetQuiet ==
  ASSUME BrTypeOK, BrQuiet, NEW i \in BAttempts, b_set(i)
  PROVE  BrQuiet'
<1>1. /\ batt[i].pc = "set" /\ batt'[i].pc = "online" /\ batt'[i].info = batt[i].info
      /\ \A j \in BAttempts : j # i => batt'[j] = batt[j]
      /\ \A n \in bnodes : n # BAt[i] => bpeers'[n] = bpeers[n]
      /\ UNCHANGED <<bnodes, bkicks, bhad>>
  BY Zenon DEF b_set, BrTypeOK
<1>2. \A j \in BAttempts : j # i => batt[j].pc \notin {"locking", "kick", "kicking", "set"}
  BY <1>1, ZenonT(60) DEF BrQuiet, KicksAreOwn, Busy
<1>3. KicksAreOwn'
  BY <1>1, <1>2, Zenon DEF BrQuiet, KicksAreOwn, Busy
<1>4. SessionsHunted'
  BY <1>1, <1>2, SMTT(30), Z3T(30) DEF BrQuiet, SessionsHunted, Hunted
<1>5. SessionFound'
  BY <1>1, <1>2, ZenonT(60) DEF BrQuiet, SessionFound
<1>. QED  BY <1>3, <1>4, <1>5, Zenon DEF BrQuiet

\* The lock taken for a kick leaves the session to be kicked.
LEMMA KickLockQuiet ==
  ASSUME BrTypeOK, BrQuiet, NEW k \in bkicks, b_kick_lock(k)
  PROVE  BrQuiet'
<1>. DEFINE l == [k EXCEPT !.pc = "locked"]
<1>1. /\ l.i = k.i /\ l.node = k.node /\ bkicks' = (bkicks \ {k}) \cup {l}
      /\ UNCHANGED <<bnodes, bpeers, batt, bhad>>
  BY DEF b_kick_lock, BrTypeOK
<1>. HIDE DEF l
<1>2. \A n \in bnodes : Hunted(n) => Hunted(n)'
  BY <1>1, Zenon DEF Hunted
<1>3. KicksAreOwn'
  BY <1>1, ZenonT(60) DEF BrQuiet, KicksAreOwn, Busy
<1>4. SessionsHunted'
  BY <1>1, <1>2, Zenon DEF BrQuiet, SessionsHunted
<1>5. SessionFound'
  BY <1>1, SMTT(30), Z3T(30) DEF BrQuiet, SessionFound, Finds
<1>. QED  BY <1>3, <1>4, <1>5, Zenon DEF BrQuiet

\* The first answer in a cluster of two is that of the node that had the session.
LEMMA KickDoneQuiet ==
  ASSUME BrTypeOK, BrQuiet, NEW k \in bkicks, b_kick_done(k)
  PROVE  BrQuiet'
<1>1. /\ k.i \in BAttempts /\ k.node \in bnodes /\ k.node # BAt[k.i]
      /\ bpeers'[k.node] = 0
      /\ \A n \in bnodes : n # k.node => bpeers'[n] = bpeers[n]
      /\ bkicks' = bkicks \ {k}
      /\ UNCHANGED <<bnodes, bhad>>
  BY Zenon DEF b_kick_done, BrTypeOK, BrQuiet, KicksAreOwn
<1>2. \A j \in BAttempts : j # k.i => batt'[j] = batt[j] /\ j \notin Busy
  BY <1>1, SMTT(30), Z3T(30) DEF b_kick_done, BrTypeOK, BrQuiet, KicksAreOwn
<1>3. \/ /\ batt[k.i].pc = "kicking" /\ batt'[k.i].pc = "set" /\ batt'[k.i].info = bpeers[k.node]
      \/ batt[k.i].pc # "kicking" /\ batt'[k.i] = batt[k.i]
  BY <1>1, Zenon DEF b_kick_done, BrTypeOK
<1>4. \A n \in bnodes : n # k.node /\ Hunted(n) => Hunted(n)'
  BY <1>1, Zenon DEF Hunted
<1>5. batt[k.i].pc \notin {"locking", "kick"}
  BY <1>1, Zenon DEF BrQuiet, KicksAreOwn
<1>6. \A j \in BAttempts : j # k.i => batt'[j].pc \notin {"locking", "kick", "kicking", "set"}
  BY <1>2, Zenon DEF Busy
<1>7. KicksAreOwn'
  BY <1>1, <1>3, <1>5, <1>6, SMTT(30), Z3T(30) DEF BrQuiet, KicksAreOwn, Busy
<1>8. SessionsHunted'
  <2>1. \A m, n \in bnodes : bpeers'[m] # 0 /\ bpeers'[n] # 0 /\ m # n => Hunted(m)' \/ Hunted(n)'
    BY <1>1, <1>4, Zenon DEF BrQuiet, SessionsHunted
  <2>2. ASSUME NEW j \in BAttempts, batt'[j].pc \in {"kicking", "set"}, NEW n \in bnodes, bpeers'[n] # 0
        PROVE  Hunted(n)'
    <3>1. j = k.i /\ batt[j].pc \in {"kicking", "set"}
      BY <1>3, <1>6, <2>2, Zenon
    <3>. QED  BY <1>1, <1>4, <2>2, <3>1, Zenon DEF BrQuiet, SessionsHunted
  <2>. QED  BY <1>1, <2>1, <2>2, Zenon DEF SessionsHunted
<1>9. SessionFound'
  <2>1. CASE batt[k.i].pc = "kicking"
    <3>1. Finds(k.i) /\ bpeers[BAt[k.i]] = 0 /\ BAt[k.i] \in bnodes
      BY <1>1, <2>1, Zenon DEF BrQuiet, SessionFound, BrTypeOK
    <3>2. Pair(bnodes) => \A n \in bnodes : n = k.node \/ n = BAt[k.i]
      BY <1>1, <3>1, TwoNodes, Zenon
    <3>3. Pair(bnodes) => (\A n \in bnodes : bpeers'[n] = 0) /\ bpeers[k.node] = bhad[k.i]
      BY <1>1, <3>1, <3>2, Zenon DEF Finds
    <3>4. batt'[k.i].pc = "set" /\ batt'[k.i].info = bpeers[k.node]
      BY <1>3, <2>1, Zenon
    <3>. QED  BY <1>1, <1>2, <1>6, <3>3, <3>4, ZenonT(60) DEF BrQuiet, SessionFound
  <2>2. CASE batt[k.i].pc # "kicking"
    <3>1. batt'[k.i] = batt[k.i] /\ batt[k.i].pc \notin {"locking", "kick", "kicking"}
      BY <1>3, <1>5, <2>2, Zenon
    <3>. QED  BY <1>1, <1>2, <1>6, <3>1, SMTT(30), Z3T(30) DEF BrQuiet, SessionFound
  <2>. QED  BY <2>1, <2>2, Zenon
<1>. QED  BY <1>7, <1>8, <1>9, Zenon DEF BrQuiet

\* A session that ends is looked for no more.
LEMMA RemoveQuiet ==
  ASSUME BrTypeOK, BrQuiet, NEW n \in bnodes, b_remove(n)
  PROVE  BrQuiet'
<1>1. /\ bpeers[n] # 0 /\ bpeers'[n] = 0
      /\ \A m \in bnodes : m # n => bpeers'[m] = bpeers[m]
      /\ \A i \in BAttempts : bhad'[i] = IF i \in Busy THEN 0 ELSE bhad[i]
      /\ UNCHANGED <<bnodes, batt, bkicks>>
  BY Zenon DEF b_remove, BrTypeOK
<1>2. KicksAreOwn'
  BY <1>1, SMTT(30), Z3T(30) DEF BrQuiet, KicksAreOwn, Busy
<1>3. SessionsHunted'
  BY <1>1, SMTT(30), Z3T(30) DEF BrQuiet, SessionsHunted, Hunted
<1>4. SessionFound'
  <2>. SUFFICES ASSUME NEW i \in BAttempts
                PROVE  /\ batt[i].pc \in {"locking", "kick", "kicking"} => Finds(i)'
                       /\ batt[i].pc = "kicking" => bpeers'[BAt[i]] = 0
                       /\ Pair(bnodes) => batt[i].pc # "set"
                       /\ Pair(bnodes) /\ batt[i].pc = "online" => batt[i].info = bhad'[i]
    BY <1>1, Zenon DEF SessionFound
  <2>1. ASSUME batt[i].pc \in {"locking", "kick", "kicking"} PROVE Finds(i)'
    <3>1. Finds(i) /\ bhad'[i] = 0
      BY <1>1, <2>1, Zenon DEF BrQuiet, SessionFound, Busy
    <3>2. \A m \in bnodes : bpeers'[m] = 0
      BY <1>1, <3>1, ZenonT(60) DEF Finds
    <3>. QED  BY <1>1, <3>1, <3>2, Zenon DEF Finds
  <2>2. batt[i].pc = "kicking" => BAt[i] \in bnodes
    BY Zenon DEF BrTypeOK
  <2>3. batt[i].pc = "online" => bhad'[i] = bhad[i]
    BY <1>1, Zenon DEF Busy
  <2>. QED  BY <1>1, <2>1, <2>2, <2>3, Zenon DEF BrQuiet, SessionFound
<1>. QED  BY <1>2, <1>3, <1>4, Zenon DEF BrQuiet

\* Every step keeps the invariant.
LEMMA BrNextInv == BrInv /\ [BrNext]_brVars => BrInv'
<1>. SUFFICES ASSUME BrInv, [BrNext]_brVars, Alone' PROVE BrQuiet'
  BY BrTypes DEF BrInv, BrQuiet
<1>1. BrTypeOK /\ (Alone => BrQuiet)
  BY Zenon DEF BrInv, BrQuiet
<1>2. ASSUME NEW i \in BAttempts, b_connect(i) PROVE BrQuiet'
  BY <1>1, <1>2, ConnectQuiet, Zenon
<1>3. ASSUME NEW i \in BAttempts, b_try_lock(i) \/ b_kick(i) \/ b_set(i) PROVE BrQuiet'
  <2>1. Alone
    BY <1>3, SMTT(30), Z3T(30) DEF Alone, b_try_lock, b_kick, b_set
  <2>. QED  BY <1>1, <1>3, <2>1, TryLockQuiet, KickQuiet, SetQuiet, Zenon
<1>4. ASSUME NEW k \in bkicks, b_kick_lock(k) \/ b_kick_done(k) PROVE BrQuiet'
  <2>1. Alone
    BY <1>4, SMTT(30), Z3T(30) DEF Alone, b_kick_lock, b_kick_done
  <2>. QED  BY <1>1, <1>4, <2>1, KickLockQuiet, KickDoneQuiet, Zenon
<1>5. ASSUME NEW k \in bkicks, b_kick_fails(k) PROVE FALSE
  BY <1>5, Zenon DEF b_kick_fails, Alone
<1>6. ASSUME NEW n \in bnodes, b_remove(n) PROVE BrQuiet'
  <2>1. Alone
    BY <1>6, ZenonT(60) DEF Alone, b_remove
  <2>. QED  BY <1>1, <1>6, <2>1, RemoveQuiet, Zenon
<1>7. ASSUME UNCHANGED brVars PROVE BrQuiet'
  BY <1>1, <1>7 DEF brVars, Alone, BrQuiet, KicksAreOwn, SessionsHunted, SessionFound, Busy, Hunted, Finds
<1>. QED  BY <1>2, <1>3, <1>4, <1>5, <1>6, <1>7, Zenon DEF BrNext

\* While no two attempts meet and no kick is lost, kicks belong to the one attempt
\* under way, every session but its own is about to be kicked, and it finds the
\* session there was: the state ClusterShared's try_lock, kick and set keep.
THEOREM KicksReachSessions == BrSpec => []BrInv
<1>. QED  BY BrInitInv, BrNextInv, PTL DEF BrSpec

\* BroadcastTakeover holds in every broadcast cluster: one session is left once the
\* kicks are over, and a cluster of two hands the old session over.
THEOREM TakeoverHolds == BrSpec => []BroadcastTakeover
<1>1. BrInv => BroadcastTakeover
  BY ZenonT(60) DEF BrInv, Alone, BroadcastTakeover, SessionsHunted, Hunted, SessionFound
<1>. QED  BY <1>1, KicksReachSessions, PTL
==============================================================================
