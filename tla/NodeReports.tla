---------------------------- MODULE NodeReports ----------------------------
(***************************************************************************)
(* The self-heal loop and the standing of one node, in one process of the  *)
(* plane: they share its end.                                              *)
(***************************************************************************)
EXTENDS Heal, Standing

reportVars == <<vars, standingVars>>

ReportsInit == Init /\ StandingInit

Heals ==
  /\ \/ \E c \in Command : Land(c) \/ Select(c) \/ Insert(c) \/ Publish(c)
     \/ \E p \in Check : Post(p) \/ List(p) \/ Answer(p) \/ \E i \in Id : Close(p, i)
  /\ UNCHANGED standingVars

Attests == FactStep /\ UNCHANGED vars

Reputes == ReputationStep /\ UNCHANGED vars

Dies == Crash /\ StandingStops

ReportsNext == Heals \/ Attests \/ Reputes \/ Dies

ReportsSpec == ReportsInit /\ [][ReportsNext]_reportVars
=============================================================================
