-------------------------- MODULE BroadcastRegistry --------------------------
(***************************************************************************)
(* A client connects on the nodes of a broadcast cluster                      *)
(* (ferromq-cluster-broadcast).  Nothing is shared: a handshake holds the lock *)
(* of its own node, kicks the session there or else asks every other node to,  *)
(* takes the first answer, and registers.                                     *)
(***************************************************************************)
EXTENDS Naturals

CONSTANTS
  BClusters,    \* the sets of nodes to look at
  BAttempts,    \* connection attempts, numbered
  BAt           \* the node each attempt arrives at

ASSUME BroadcastAssumption ==
  /\ BAttempts \subseteq Nat \ {0}
  /\ DOMAIN BAt = BAttempts

VARIABLES
  bnodes,     \* the nodes of the cluster
  bpeers,     \* each node's registered session, 0 for none
  blocks,     \* each node's lock: the attempt or the kick (by attempt) that has it
  batt,       \* each attempt: pc, and the session whose OfflineInfo it was given
  bkicks,     \* Kick requests to other nodes: sent, locked, done
  bmet,       \* history: two attempts were under way together
  bhad,       \* history: the session each attempt finds, unless it ends meanwhile
  blost       \* history: attempts a Kick of which was lost or dropped

brVars == <<bnodes, bpeers, blocks, batt, bkicks, bmet, bhad, blost>>

BrInit ==
  /\ bnodes \in BClusters
  /\ bpeers = [n \in bnodes |-> 0]
  /\ blocks = [n \in bnodes |-> 0]
  /\ batt = [i \in BAttempts |-> [pc |-> "idle", info |-> 0]]
  /\ bkicks = {} /\ bmet = FALSE
  /\ bhad = [i \in BAttempts |-> 0] /\ blost = {}

Busy == {i \in BAttempts : batt[i].pc \in {"locking", "kick", "kicking", "set"}}
KickAt(i, n, pc) == [i |-> i, node |-> n, pc |-> pc]

\* The client's next attempt; an earlier one may still be under way.
b_connect(i) ==
  /\ batt[i].pc = "idle" /\ BAt[i] \in bnodes
  /\ \A k \in BAttempts : k < i => batt[k].pc # "idle"
  /\ batt' = [batt EXCEPT ![i].pc = "locking"]
  /\ bmet' = (bmet \/ Busy # {} \/ bkicks # {})
  /\ bhad' = [bhad EXCEPT ![i] = IF \E n \in bnodes : bpeers[n] # 0
                                 THEN CHOOSE s \in {bpeers[n] : n \in bnodes} : s # 0 ELSE 0]
  /\ UNCHANGED <<bnodes, bpeers, blocks, bkicks, blost>>

\* LockEntry::try_lock on this node, waiting, or giving up when it takes too long.
b_try_lock(i) ==
  /\ batt[i].pc = "locking"
  /\ \/ blocks[BAt[i]] = 0 /\ blocks' = [blocks EXCEPT ![BAt[i]] = i] /\ batt' = [batt EXCEPT ![i].pc = "kick"]
     \/ blocks[BAt[i]] # 0 /\ batt' = [batt EXCEPT ![i].pc = "refused"] /\ UNCHANGED blocks
  /\ UNCHANGED <<bnodes, bpeers, bkicks, bmet, bhad, blost>>

\* Mutant: a session on this node is not looked for.
Here_never(i) == FALSE

Here(i) == bpeers[BAt[i]] # 0

\* inner.kick; when there was no session here, Message::Kick to the others.
b_kick(i) ==
  /\ batt[i].pc = "kick"
  /\ IF Here(i)
     THEN /\ batt' = [batt EXCEPT ![i] = [pc |-> "set", info |-> bpeers[BAt[i]]]]
          /\ bpeers' = [bpeers EXCEPT ![BAt[i]] = 0]
          /\ UNCHANGED bkicks
     ELSE /\ batt' = [batt EXCEPT ![i].pc = "kicking"]
          /\ bkicks' = bkicks \cup {KickAt(i, n, "sent") : n \in bnodes \ {BAt[i]}}
          /\ UNCHANGED bpeers
  /\ UNCHANGED <<bnodes, blocks, bmet, bhad, blost>>

\* The handler takes the lock of its node ...
b_kick_lock(k) ==
  /\ k \in bkicks /\ k.pc = "sent" /\ blocks[k.node] = 0
  /\ blocks' = [blocks EXCEPT ![k.node] = k.i]
  /\ bkicks' = (bkicks \ {k}) \cup {[k EXCEPT !.pc = "locked"]}
  /\ UNCHANGED <<bnodes, bpeers, batt, bmet, bhad, blost>>

\* ... kicks what it has, and answers; the first answer, NotExist included, ends
\* select_ok, and later ones are not looked at.
b_kick_done(k) ==
  /\ k \in bkicks /\ k.pc = "locked"
  /\ bpeers' = [bpeers EXCEPT ![k.node] = 0]
  /\ blocks' = [blocks EXCEPT ![k.node] = 0]
  /\ bkicks' = bkicks \ {k}
  /\ batt' = IF batt[k.i].pc = "kicking"
             THEN [batt EXCEPT ![k.i] = [pc |-> "set", info |-> bpeers[k.node]]] ELSE batt
  /\ UNCHANGED <<bnodes, bmet, bhad, blost>>

\* A request fails, cannot take the lock, or is dropped with the other futures
\* of select_ok.  When none is left the kick is NotExist.
b_kick_fails(k) ==
  /\ k \in bkicks /\ k.pc = "sent"
  /\ bkicks' = bkicks \ {k}
  /\ batt' = IF batt[k.i].pc = "kicking" /\ ~\E x \in bkicks \ {k} : x.i = k.i
             THEN [batt EXCEPT ![k.i].pc = "set"] ELSE batt
  /\ blost' = blost \cup {k.i}
  /\ UNCHANGED <<bnodes, bpeers, blocks, bmet, bhad>>

\* inner.set
b_set(i) ==
  /\ batt[i].pc = "set"
  /\ bpeers' = [bpeers EXCEPT ![BAt[i]] = i]
  /\ blocks' = [blocks EXCEPT ![BAt[i]] = 0]
  /\ batt' = [batt EXCEPT ![i].pc = "online"]
  /\ UNCHANGED <<bnodes, bkicks, bmet, bhad, blost>>

\* The session ends.
b_remove(n) ==
  /\ bpeers[n] # 0 /\ blocks[n] = 0
  /\ bpeers' = [bpeers EXCEPT ![n] = 0]
  /\ bhad' = [i \in BAttempts |-> IF i \in Busy THEN 0 ELSE bhad[i]]
  /\ UNCHANGED <<bnodes, blocks, batt, bkicks, bmet, blost>>

BrNext ==
  \/ \E i \in BAttempts : b_connect(i) \/ b_try_lock(i) \/ b_kick(i) \/ b_set(i)
  \/ \E k \in bkicks : b_kick_lock(k) \/ b_kick_done(k) \/ b_kick_fails(k)
  \/ \E n \in bnodes : b_remove(n)

BrSpec == BrInit /\ [][BrNext]_brVars

-----------------------------------------------------------------------------

Pair(nodes) == \E a, b \in nodes : a # b /\ nodes = {a, b}

\* When no two attempts were under way together and no kick was lost, the client
\* has one session once the kicks are over; and a session that was there is
\* handed over to the new one, in a cluster of two.  In a larger one a node
\* that has no session may answer first.
BroadcastTakeover ==
  ~bmet /\ blost = {} =>
    /\ Busy = {} /\ bkicks = {} => \A n, k \in bnodes : bpeers[n] # 0 /\ bpeers[k] # 0 => n = k
    /\ Pair(bnodes) => \A i \in BAttempts : batt[i].pc = "online" => batt[i].info = bhad[i]
=============================================================================
