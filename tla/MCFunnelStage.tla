---------------------------- MODULE MCFunnelStage ----------------------------
(* Small instances of FunnelStage: the stages a standard pipeline has in     *)
(* kind, a reporting line rep -> lead -> boss.                               *)
EXTENDS FunnelStage, TLC

CONSTANTS p1, p2, f1, f2, rep, lead, boss

Stage(kind, order, approval, requires, allocates) ==
  [kind |-> kind, order |-> order, approval |-> approval,
   requires |-> requires, allocates |-> allocates]

\* An open stage, 4A that needs approval and allocates the code, Won, KIV.
ShortPipeline ==
  [s \in {"1d", "4a", "won", "kiv"} |->
     CASE s = "1d"  -> Stage("OPEN", 1, FALSE, {"vision"}, FALSE)
       [] s = "4a"  -> Stage("OPEN", 2, TRUE, {"invoice"}, TRUE)
       [] s = "won" -> Stage("WON", 3, TRUE, {}, TRUE)
       [] s = "kiv" -> Stage("PARKED", 4, FALSE, {}, FALSE)]

LadderOnly == [s \in {"1d", "4a", "won"} |-> ShortPipeline[s]]

ReportingLine ==
  [m \in {rep, lead, boss} |->
     CASE m = rep -> lead [] m = lead -> boss [] m = boss -> Nobody]

TwoLine == [m \in {rep, boss} |-> IF m = rep THEN boss ELSE Nobody]

SessionSymmetry == Permutations(Sessions)
=============================================================================
