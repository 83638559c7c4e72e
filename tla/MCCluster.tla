------------------------------ MODULE MCCluster ------------------------------
(***************************************************************************)
(* The cluster modules in one run.  The initial state picks the part that      *)
(* moves; the others stay in one initial state, so the state spaces add up.    *)
(***************************************************************************)
EXTENDS ClusterRegistry, ClusterForward, ClusterRetain, BroadcastRegistry, ClusterStart

VARIABLE part
Scenario(may, bound) == [may |-> may, log |-> bound, at |-> <<1, 2>>]
MCScenarios ==
  {Scenario({}, 6), Scenario({"answer"}, 5), Scenario({"kick"}, 5), Scenario({"expire"}, 4),
   Scenario({"abort"}, 5), Scenario({"giveup"}, 5), Scenario({"crash"}, 5), Scenario({"snapshot"}, 4),
   [may |-> {"expire"}, log |-> 4, at |-> <<1, 1>>]}

MCHome == [a |-> 1, b |-> 2, c |-> 2, g |-> 1, h |-> 2, k |-> 3]
MCBAt == <<1, 2, 2>>

clusterVars == <<part, regVars, fwdVars, retVars, brVars, startVars>>

RegStill == RegInit /\ scen = Scenario({}, 6) /\ att = [i \in Attempts |-> NewAttempt(TRUE)]
FwdStill == FwdInit /\ fmode = "single" /\ ftarget = "none" /\ fup = {}
RetStill == RetInit /\ rlast = [t \in RTopic |-> 0]
BrStill == BrInit /\ bnodes = {1, 2}
StartStill == StartInit /\ lcfg = 0

ClusterInit ==
  \/ part = "registry" /\ RegInit /\ FwdStill /\ RetStill /\ BrStill /\ StartStill
  \/ part = "forward" /\ RegStill /\ FwdInit /\ RetStill /\ BrStill /\ StartStill
  \/ part = "retain" /\ RegStill /\ FwdStill /\ RetInit /\ BrStill /\ StartStill
  \/ part = "broadcast" /\ RegStill /\ FwdStill /\ RetStill /\ BrInit /\ StartStill
  \/ part = "start" /\ RegStill /\ FwdStill /\ RetStill /\ BrStill /\ StartInit

ClusterNext ==
  /\ UNCHANGED part
  /\ \/ part = "registry" /\ RegNext /\ UNCHANGED <<fwdVars, retVars, brVars, startVars>>
     \/ part = "forward" /\ FwdNext /\ UNCHANGED <<regVars, retVars, brVars, startVars>>
     \/ part = "retain" /\ RetNext /\ UNCHANGED <<regVars, fwdVars, brVars, startVars>>
     \/ part = "broadcast" /\ BrNext /\ UNCHANGED <<regVars, fwdVars, retVars, startVars>>
     \/ part = "start" /\ StartNext /\ UNCHANGED <<regVars, fwdVars, retVars, brVars>>

ClusterSpec == ClusterInit /\ [][ClusterNext]_clusterVars
=============================================================================
