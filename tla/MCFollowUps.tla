---------------------------- MODULE MCFollowUps ----------------------------
(* One conversation, one follow-up that nobody has and room for one more,  *)
(* an automation of each kind, and two sweeps that may overlap.            *)
EXTENDS FollowUps, TLC

CONSTANTS c, t1, t2, p, q, write, give, s1, s2

LoudOnes   == {"urgent"}
ActionOf   == (write :> "create_followup") @@ (give :> "assign_followup")
AssigneeOf == (write :> p) @@ (give :> p)
TurnOfPair == [k \in {write, give} \X {c, t1, t2} |-> IF k[1] = write THEN 1 ELSE IF k[2] = t1 THEN 2 ELSE 3]
===========================================================================
