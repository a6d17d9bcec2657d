------------------------------ MODULE MCServers ------------------------------
(***************************************************************************)
(* Finite instances of the two servers that keep their state in memory,    *)
(* each behind one lock: the scheduler of the MVP stack and the WebSocket  *)
(* manager.  They share nothing: the one that "office" names moves, with   *)
(* its own fairness, and the other stays as it began.                      *)
(***************************************************************************)
EXTENDS MvpScheduler, Connections, TLC

CONSTANTS w1, w2, t1, t2, t3, e1, e2, i1, i2, n1

VARIABLE office   \* the server that moves

-----------------------------------------------------------------------------
(* Values of the constants *)

MCCapabilities == (w1 :> <<"text", "image">>) @@ (w2 :> <<"audio", "image">>)

-----------------------------------------------------------------------------
(* One server at a time *)

ServersInit ==
  /\ office \in {"scheduler", "connections"}
  /\ Init /\ ConnInit
  /\ office # "scheduler" => \A t \in TaskIds : tasks[t].type = "image"

ServersNext ==
  /\ UNCHANGED office
  /\ \/ office = "scheduler" /\ Next
     \/ office # "scheduler" /\ UNCHANGED mvpVars
  /\ \/ office = "connections" /\ ConnNext
     \/ office # "connections" /\ UNCHANGED connVars

serversVars == <<office, mvpVars, connVars>>

ServersSpec ==
  /\ ServersInit /\ [][ServersNext]_serversVars
  /\ ConnFairness
  /\ \A w \in Workers : WF_mvpVars(office = "scheduler" /\ Process(w))
  /\ \A t \in TaskIds : WF_mvpVars(office = "scheduler" /\ PollResult(t))
=============================================================================
