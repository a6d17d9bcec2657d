----------------------------- MODULE MCServices -----------------------------
(***************************************************************************)
(* Finite instances of the components that share no row and no message     *)
(* with each other: one of them, the one "office" names, moves, and the    *)
(* others stay as they began.  Interleaving them would multiply the states *)
(* and show nothing new: no action of one reads a variable of another.     *)
(* ApiTasks has two offices: lists of two rows without two-tier requests,  *)
(* and one row that two-tier requests take, too.                           *)
(***************************************************************************)
EXTENDS Wallet, ReputationDecay, ApiTasks, Collusion, ModelExecution

CONSTANTS o1, d1, d2, s1, s2, m1, c1, c2, x1, x2, v1

VARIABLE office   \* the component that moves

-----------------------------------------------------------------------------
(* Values of the constants *)

MCChanges == {-100}

MCSuspects == 1 .. 4

Pairs == MCSuspects \X MCSuspects

Never == [p \in Pairs |-> 0]

\* Every graph on four workers: an edge is three tasks one way and two the other, so that no
\* score is looked at.
RingLogs ==
  {[done |-> [p \in Pairs |-> CASE p \in edges -> 3 [] <<p[2], p[1]>> \in edges -> 2 [] OTHER -> 0],
    rejected |-> Never, fast |-> [w \in MCSuspects |-> 0]] :
     edges \in SUBSET {p \in Pairs : p[1] < p[2]}}

Busy == {p \in Pairs : p[1] # p[2] /\ p[1] < 4 /\ p[2] < 4}

\* Three workers with 0, 4 or 10 tasks done of each other; worker 1 is quick.
ScoreLogs ==
  {[done |-> [p \in Pairs |-> IF p \in Busy THEN counts[p] ELSE 0],
    rejected |-> [p \in Pairs |-> IF p \in Busy /\ counts[p] = 4 THEN 1 ELSE 0],
    fast |-> [w \in MCSuspects |-> IF w = 1 /\ counts[<<2, 1>>] > 0 THEN 3 ELSE 0]] :
     counts \in [Busy -> {0, 4, 10}]}

MCLogs == RingLogs \cup ScoreLogs

MCPayloads ==
  {<<>>, <<"broken">>, <<"plain", "short", "broken">>,
   <<"plain", "plain", "plain", "plain", "plain">>}

MCRanges == {<<0, 30>>, <<9, 10>>, <<7, 7>>}

-----------------------------------------------------------------------------
(* One component at a time *)

Offices == {"wallet", "decay", "api", "twins", "collusion", "execution"}

ServicesInit ==
  /\ office \in Offices
  /\ WalletInit /\ DecayInit /\ ApiInit /\ CollusionInit /\ ExecutionInit
  /\ office # "collusion" => verdicts.done = Never
  /\ office # "execution" => engine = "gpu"

ServicesNext ==
  /\ UNCHANGED office
  /\ \/ office = "wallet" /\ WalletNext
     \/ office # "wallet" /\ UNCHANGED walletVars
  /\ \/ office = "decay" /\ DecayNext
     \/ office # "decay" /\ UNCHANGED decayVars
  /\ \/ office = "api" /\ ApiNext /\ UNCHANGED tier
     \/ office = "twins" /\ ApiNext /\ call'[2] = "none"
     \/ office \notin {"api", "twins"} /\ UNCHANGED apiVars
  /\ \/ office = "collusion" /\ CollusionNext
     \/ office # "collusion" /\ UNCHANGED collusionVars
  /\ \/ office = "execution" /\ ExecutionNext
     \/ office # "execution" /\ UNCHANGED executionVars

servicesVars ==
  <<office, walletVars, decayVars, apiVars, collusionVars, executionVars>>

ServicesSpec == ServicesInit /\ [][ServicesNext]_servicesVars
=============================================================================
