-------------------------- MODULE FollowUpsProofs --------------------------
(***************************************************************************)
(* For any automations, findings and number of overlapping sweeps, and     *)
(* however often they die: an automation acts once on a finding, a claim   *)
(* that stands is of something done, an acceptance is of this time, and    *)
(* what becomes true is told once, at the severities that are told.        *)
(*                                                                         *)
(* The first two need to know whose a claim is: until a run commits, what  *)
(* it has claimed is its own and nothing has been done about it.  The last *)
(* needs to know that an operator reports only what is its own, so that a  *)
(* sweep raises a finding at most once.                                    *)
(***************************************************************************)
EXTENDS FollowUps, FiniteSetTheorems, TLAPS

(* How often a rule has come to an end with a finding, one way or another. *)
Ended(p) == acts[p] + refused[p] + mute[p]

(* A claim in a run's hands is of a rule that is there and of nothing done *)
(* yet; a claim that stands is of one thing done, or one that could not    *)
(* be, and has its reason in the second case.                              *)
ClaimsMatchActs ==
  \A p \in Pairs :
    /\ Ended(p) \in {0, 1}
    /\ claim[p] \in Sweeps => rule[p[1]] # "deleted"
    /\ claim[p] = "done" => rule[p[1]] # "deleted" /\ Ended(p) = 1 /\ (p \in reason <=> refused[p] = 1)
    /\ claim[p] # "done" /\ rule[p[1]] # "deleted" => Ended(p) = 0

(* In a run, what is claimed has a turn to come, is done, or has a reason, *)
(* or the database has failed; and a reason is of what is not done.        *)
ReasonsAreKept ==
  \A p \in Pairs :
    /\ p \in reason => claim[p] # NoSweep
    /\ mute[p] = 1 => troubles > 0
    /\ \A s \in Sweeps : claim[p] = s =>
         /\ p \in pending[s] => p \notin todo[s]
         /\ p \in reason => p \notin pending[s] /\ p \notin todo[s]
         /\ p \in pending[s] \/ p \in todo[s] \/ p \in reason \/ troubles > 0

(* What a sweep has found is of the operator at hand, and what it has      *)
(* raised is of those before.                                              *)
FoundByItsOperator ==
  \A s \in Sweeps, x \in Subjects :
    /\ pc[s] = "write1" /\ x \in WorthTelling(found[s]) => OperatorOf(x) = "customer-waiting"
    /\ pc[s] = "write2" /\ x \in WorthTelling(found[s]) => OperatorOf(x) = "unowned-followup"
    /\ x \in WorthTelling(raised[s]) => pc[s] \in {"look2", "write2", "tell"}
    /\ x \in WorthTelling(raised[s]) /\ pc[s] # "tell" => OperatorOf(x) = "customer-waiting"

Phases == {"idle", "look1", "write1", "look2", "write2", "tell", "begin", "run"}

-----------------------------------------------------------------------------
(* Typing, one action at a time.                                           *)

LEMMA InitTypes == Init => TypeOK
  BY ConstantsAssumption DEF Init, TypeOK, Pairs, Subjects

LEMMA SubjectsTyped ==
  ASSUME NEW F \in SUBSET (Subjects \X Severities)
  PROVE  SubjectsOf(F) \subseteq Subjects /\ WorthTelling(F) \subseteq SubjectsOf(F)
  BY DEF SubjectsOf, WorthTelling

LEMMA WorldTypes == ASSUME TypeOK, World PROVE TypeOK'
<1> USE ConstantsAssumption DEF Happens, rowVars, findingVars, sweepVars, doneVars, runVars, tellVars
<1>1. ASSUME NEW c \in Conversations, CustomerWrites(c) PROVE TypeOK'
  BY <1>1 DEF TypeOK, CustomerWrites
<1>2. ASSUME NEW c \in Conversations, Answered(c) PROVE TypeOK'
  BY <1>2 DEF TypeOK, Answered
<1>3. ASSUME NEW t \in Tasks, NEW who \in People \cup {Nobody}, AssignByHand(t, who) PROVE TypeOK'
  BY <1>3 DEF TypeOK, AssignByHand
<1>4. ASSUME NEW t \in Tasks, NEW status \in {"open", "done"}, SetStatus(t, status) PROVE TypeOK'
  BY <1>4 DEF TypeOK, SetStatus
<1>5. ASSUME NEW who \in People, Leaves(who) PROVE TypeOK'
  BY <1>5 DEF TypeOK, Leaves
<1>6. ASSUME NEW r \in Rules, SwitchRule(r) PROVE TypeOK'
  BY <1>6 DEF TypeOK, SwitchRule
<1>7. ASSUME NEW r \in Rules, DeleteRule(r) PROVE TypeOK'
  BY <1>7 DEF TypeOK, DeleteRule
<1>8. ASSUME NEW x \in Subjects, Accept(x) PROVE TypeOK'
  BY <1>8 DEF TypeOK, Accept, worldVars
<1>9. ASSUME NEW x \in Subjects, TakeBack(x) PROVE TypeOK'
  BY <1>9 DEF TypeOK, TakeBack, worldVars
<1>10. ASSUME NEW x \in Subjects, Lapse(x) PROVE TypeOK'
  BY <1>10 DEF TypeOK, Lapse, worldVars
<1>11. ASSUME NEW c \in Conversations, WaitsLong(c) PROVE TypeOK'
  BY <1>11 DEF TypeOK, WaitsLong
<1> QED BY <1>1, <1>2, <1>3, <1>4, <1>5, <1>6, <1>7, <1>8, <1>9, <1>10, <1>11 DEF World

LEMMA SweepTypes ==
  ASSUME TypeOK, NEW s \in Sweeps, StartSweep(s) \/ Operate(s) \/ Tell(s) \/ BeginRun(s)
  PROVE  TypeOK'
<1> USE ConstantsAssumption DEF worldVars, rowVars, findingVars, doneVars, runVars, tellVars
<1>1. CASE StartSweep(s)
  BY <1>1 DEF TypeOK, StartSweep
<1>2. ASSUME NEW operator, NEW here \in Phases \ {"run"}, NEW next \in Phases \ {"run"},
             LookFor(s, operator, here, next) PROVE TypeOK'
  <2>1. {<<x, Severity(x)>> : x \in {y \in Subjects : OperatorOf(y) = operator /\ Holds(y)}}
          \subseteq Subjects \X Severities
    BY DEF Severity, Severities
  <2>2. found' \in [Sweeps -> SUBSET (Subjects \X Severities)]
    BY <1>2, <2>1 DEF TypeOK, LookFor
  <2> QED BY <1>2, <2>2 DEF TypeOK, LookFor, Phases
<1>3. ASSUME NEW operator, NEW here \in Phases \ {"run"}, NEW next \in Phases \ {"run"},
             Reconcile(s, operator, here, next) PROVE TypeOK'
  <2>1. /\ finding' \in [Subjects -> {"none", "open", "resolved"}]
        /\ accepted' \in [Subjects -> {"no", "yes", "lapsed"}]
    BY <1>3 DEF TypeOK, Reconcile, Verdict, StandingAcceptance
  <2>2. opened' \in [Subjects -> Nat] /\ due' \in [Subjects -> Nat]
    BY <1>3 DEF TypeOK, Reconcile
  <2>3. /\ raised' \in [Sweeps -> SUBSET (Subjects \X Severities)]
        /\ found' \in [Sweeps -> SUBSET (Subjects \X Severities)]
    BY <1>3 DEF TypeOK, Reconcile
  <2>4. earlier' \subseteq Subjects \X Subjects
    BY <1>3 DEF Reconcile
  <2>5. urgent' \subseteq Subjects
    <3>1. SubjectsOf(found[s]) \subseteq Subjects
      BY SubjectsTyped DEF TypeOK
    <3> QED BY <1>3, <3>1 DEF TypeOK, Reconcile
  <2> QED BY <1>3, <2>1, <2>2, <2>3, <2>4, <2>5 DEF TypeOK, Reconcile, Phases
<1>4. ASSUME NEW here \in Phases \ {"run"}, NEW there \in Phases \ {"run"},
             NEW next \in Phases \ {"run"}, OperatorFails(s, here, there, next) PROVE TypeOK'
  BY <1>4 DEF TypeOK, OperatorFails, Phases
<1>5. CASE Operate(s)
  <2> USE DEF Phases
  <2>1. CASE LookFor(s, "customer-waiting", "look1", "write1")
    BY <2>1, <1>2
  <2>2. CASE Reconcile(s, "customer-waiting", "write1", "look2")
    BY <2>2, <1>3
  <2>3. CASE OperatorFails(s, "look1", "write1", "look2")
    BY <2>3, <1>4
  <2>4. CASE LookFor(s, "unowned-followup", "look2", "write2")
    BY <2>4, <1>2
  <2>5. CASE Reconcile(s, "unowned-followup", "write2", "tell")
    BY <2>5, <1>3
  <2>6. CASE OperatorFails(s, "look2", "write2", "tell")
    BY <2>6, <1>4
  <2> QED BY <1>5, <2>1, <2>2, <2>3, <2>4, <2>5, <2>6 DEF Operate
<1>6. CASE Tell(s)
  <2>1. told' \in [Subjects -> Nat]
    BY <1>6 DEF TypeOK, Tell
  <2>2. untold' \in [Subjects -> Nat]
    BY <1>6 DEF TypeOK, Tell
  <2>3. troubles' \in 0..MaxTroubles
    BY <1>6 DEF TypeOK, Tell
  <2> QED BY <1>6, <2>1, <2>2, <2>3 DEF TypeOK, Tell
<1>7. CASE BeginRun(s)
  BY <1>7 DEF TypeOK, BeginRun, ToActOn
<1> QED BY <1>1, <1>5, <1>6, <1>7

LEMMA RunTypes ==
  ASSUME TypeOK, NEW s \in Sweeps, NEW p \in Pairs,
         ClaimFinding(s, p) \/ AlreadyClaimed(s, p) \/ Act(s, p) \/ CannotAct(s, p) \/ RuleGone(s, p)
  PROVE  TypeOK'
<1> USE ConstantsAssumption DEF worldVars, rowVars, findingVars, doneVars, runVars, tellVars, TurnOf, Claimed, DropPair
<1>1. CASE AlreadyClaimed(s, p)
  BY <1>1 DEF TypeOK, AlreadyClaimed
<1>2. CASE Act(s, p)
  <2>1. pending' \in [Sweeps -> SUBSET Pairs] /\ todo' \in [Sweeps -> SUBSET Pairs]
    BY <1>2 DEF TypeOK, Act
  <2>2. \A k \in Sweeps : \A r \in pending'[k] : claim'[r] = k
    BY <1>2 DEF TypeOK, Act
  <2>3. \A k \in Sweeps : pc[k] # "run" => todo'[k] = {}
    BY <1>2 DEF TypeOK, Act
  <2> QED BY <1>2, <2>1, <2>2, <2>3 DEF TypeOK, Act
<1>3. CASE CannotAct(s, p)
  <2>1. troubles' \in 0..MaxTroubles /\ reason' \subseteq Pairs
    BY <1>3 DEF TypeOK, CannotAct
  <2>2. todo' \in [Sweeps -> SUBSET Pairs] /\ \A k \in Sweeps : pc[k] # "run" => todo'[k] = {}
    BY <1>3 DEF TypeOK, CannotAct
  <2> QED BY <1>3, <2>1, <2>2 DEF TypeOK, CannotAct
<1>5. CASE ClaimFinding(s, p)
  <2>1. claim' \in [Pairs -> Sweeps \cup {NoSweep, "done"}]
    BY <1>5 DEF TypeOK, ClaimFinding
  <2>2. \A k \in Sweeps : /\ pc[k] # "run" => \A r \in Pairs : claim'[r] # k
                          /\ \A r \in pending[k] : claim'[r] = k
    BY <1>5 DEF TypeOK, ClaimFinding, Free
  <2> QED BY <1>5, <2>1, <2>2 DEF TypeOK, ClaimFinding, sweepVars
<1>4. CASE RuleGone(s, p)
  BY <1>4 DEF TypeOK, RuleGone, Undone
<1> QED BY <1>1, <1>2, <1>3, <1>4, <1>5

LEMMA EndTypes ==
  ASSUME TypeOK, NEW s \in Sweeps, CommitRun(s) \/ Dies(s)
  PROVE  TypeOK'
<1> USE ConstantsAssumption DEF worldVars, rowVars, findingVars, doneVars, tellVars
<1>1. CASE CommitRun(s)
  <2>1. owner' \in [Tasks -> People \cup {Nobody}]
    <3>1. \A t \in Tasks : (\E p \in Given(s) : p[2] = t) =>
            Assignee[(CHOOSE p \in Given(s) : p[2] = t)[1]] \in People
      BY DEF TypeOK, Given, Pairs
    <3> QED BY <1>1, <3>1 DEF TypeOK, CommitRun
  <2>2. task' \in [Tasks -> {"none", "open", "done"}]
    BY <1>1 DEF TypeOK, CommitRun
  <2>3. acts' \in [Pairs -> Nat] /\ refused' \in [Pairs -> Nat] /\ mute' \in [Pairs -> Nat]
    BY <1>1 DEF TypeOK, CommitRun
  <2>4. /\ claim' \in [Pairs -> Sweeps \cup {NoSweep, "done"}]
        /\ pending' \in [Sweeps -> SUBSET Pairs]
        /\ \A k \in Sweeps : /\ pc'[k] # "run" => todo'[k] = {} /\ \A p \in Pairs : claim'[p] # k
                             /\ \A p \in pending'[k] : claim'[p] = k
    BY <1>1 DEF TypeOK, CommitRun
  <2> QED BY <1>1, <2>1, <2>2, <2>3, <2>4 DEF TypeOK, CommitRun
<1>2. CASE Dies(s)
  <2>1. untold' \in [Subjects -> Nat] /\ raised' \in [Sweeps -> SUBSET (Subjects \X Severities)]
    BY <1>2 DEF TypeOK, Dies
  <2> QED BY <1>2, <2>1 DEF TypeOK, Dies, Undone
<1> QED BY <1>1, <1>2

LEMMA NextTypes == TypeOK /\ [Next]_vars => TypeOK'
<1>1. ASSUME TypeOK, UNCHANGED vars PROVE TypeOK'
  BY <1>1 DEF TypeOK, vars, worldVars, rowVars, findingVars, sweepVars, doneVars, runVars, tellVars
<1> QED BY <1>1, WorldTypes, SweepTypes, RunTypes, EndTypes DEF Next, GoesOn

(* Everything keeps its type, and only a run holds claims.                 *)
THEOREM TypeCorrect == Spec => []TypeOK
  BY InitTypes, NextTypes, PTL DEF Spec
-----------------------------------------------------------------------------
(* Claims.  Every step that leaves claims, acts and rules alone keeps      *)
(* them; the others are taken one by one.                                  *)

LEMMA ClaimsStay ==
  ASSUME ClaimsMatchActs, UNCHANGED runVars,
         \A r \in Rules : rule'[r] = "deleted" <=> rule[r] = "deleted"
  PROVE  ClaimsMatchActs'
  BY DEF ClaimsMatchActs, Ended, Pairs, runVars, doneVars

LEMMA ReasonsStay ==
  ASSUME ReasonsAreKept, UNCHANGED <<claim, reason, mute, pending, todo>>, troubles > 0 => troubles' > 0
  PROVE  ReasonsAreKept'
  BY DEF ReasonsAreKept

LEMMA ClaimsInit == Init => ClaimsMatchActs /\ ReasonsAreKept
  BY ConstantsAssumption DEF Init, ClaimsMatchActs, ReasonsAreKept, Ended, Pairs

LEMMA ClaimsWorld == ASSUME TypeOK, ClaimsMatchActs, World PROVE ClaimsMatchActs'
<1>1. ASSUME NEW r \in Rules, DeleteRule(r) PROVE ClaimsMatchActs'
  <2>1. /\ claim' = [p \in Pairs |-> IF p[1] = r THEN NoSweep ELSE claim[p]]
        /\ rule' = [rule EXCEPT ![r] = "deleted"] /\ reason' = {p \in reason : p[1] # r}
        /\ acts' = acts /\ refused' = refused /\ mute' = mute
        /\ \A p \in Pairs : p[1] = r => claim[p] \notin Sweeps
    BY <1>1 DEF DeleteRule, doneVars
  <2>2. rule \in [Rules -> {"active", "paused", "deleted"}] /\ \A p \in Pairs : p[1] \in Rules
    BY DEF TypeOK, Pairs
  <2> QED BY <2>1, <2>2, ConstantsAssumption DEF ClaimsMatchActs, Ended
<1>2. ASSUME NEW r \in Rules, SwitchRule(r) PROVE ClaimsMatchActs'
  BY <1>2, ClaimsStay DEF SwitchRule, TypeOK
<1>3. ASSUME UNCHANGED <<rule, runVars>> PROVE ClaimsMatchActs'
  BY <1>3, ClaimsStay
<1> QED BY <1>1, <1>2, <1>3 DEF World, CustomerWrites, WaitsLong, Answered, AssignByHand, SetStatus, Leaves,
                                Accept, TakeBack, Lapse, worldVars

LEMMA ReasonsWorld == ASSUME TypeOK, ReasonsAreKept, World PROVE ReasonsAreKept'
<1>1. ASSUME NEW r \in Rules, DeleteRule(r) PROVE ReasonsAreKept'
  BY <1>1, ConstantsAssumption DEF DeleteRule, ReasonsAreKept, doneVars, sweepVars
<1>2. ASSUME UNCHANGED <<sweepVars, runVars, troubles>> PROVE ReasonsAreKept'
  BY <1>2, ReasonsStay DEF sweepVars, runVars, doneVars
<1> QED BY <1>1, <1>2 DEF World, CustomerWrites, WaitsLong, Answered, AssignByHand, SetStatus, Leaves,
                           SwitchRule, Accept, TakeBack, Lapse

LEMMA ClaimsSweep ==
  ASSUME TypeOK, ClaimsMatchActs, ReasonsAreKept,
         NEW s \in Sweeps, StartSweep(s) \/ Operate(s) \/ Tell(s) \/ BeginRun(s)
  PROVE  ClaimsMatchActs' /\ ReasonsAreKept'
<1>1. UNCHANGED <<rule, runVars, pending>> /\ (troubles > 0 => troubles' > 0)
  BY DEF StartSweep, Operate, LookFor, Reconcile, OperatorFails, Tell, BeginRun, worldVars, TypeOK
<1>2. CASE BeginRun(s)
  <2>1. \A p \in Pairs : claim[p] # s
    BY <1>2 DEF BeginRun, TypeOK
  <2>2. \A k \in Sweeps : k # s => todo'[k] = todo[k]
    BY <1>2 DEF BeginRun, TypeOK
  <2> QED BY <1>1, <1>2, <2>1, <2>2, ClaimsStay DEF BeginRun, ReasonsAreKept, runVars, doneVars
<1>3. CASE ~BeginRun(s)
  <2>1. UNCHANGED todo
    BY <1>3 DEF StartSweep, Operate, LookFor, Reconcile, OperatorFails, Tell
  <2> QED BY <1>1, <2>1, ClaimsStay, ReasonsStay DEF runVars, doneVars
<1> QED BY <1>2, <1>3

(* A claim is made of what is free, and of a rule that is there.           *)
LEMMA ClaimsRun ==
  ASSUME TypeOK, ClaimsMatchActs, ReasonsAreKept, NEW s \in Sweeps, NEW p \in Pairs,
         \/ ClaimFinding(s, p) \/ AlreadyClaimed(s, p) \/ RuleGone(s, p)
         \/ Act(s, p) \/ CannotAct(s, p)
  PROVE  ClaimsMatchActs'
<1>1. CASE AlreadyClaimed(s, p) \/ Act(s, p)
  BY <1>1, ClaimsStay DEF AlreadyClaimed, Act, worldVars
<1>2. CASE ClaimFinding(s, p)
  BY <1>2, ConstantsAssumption DEF ClaimFinding, Free, ClaimsMatchActs, Ended, TypeOK, worldVars, doneVars
<1>3. CASE CannotAct(s, p)
  <2>1. /\ rule' = rule /\ acts' = acts /\ refused' = refused /\ mute' = mute /\ claim' = claim
        /\ claim[p] = s /\ \A k \in Pairs : k # p => (k \in reason' <=> k \in reason)
    BY <1>3 DEF CannotAct, Claimed, worldVars, doneVars
  <2> QED BY <2>1, ConstantsAssumption DEF ClaimsMatchActs, Ended
<1>4. CASE RuleGone(s, p)
  BY <1>4, ConstantsAssumption DEF ClaimsMatchActs, Ended, RuleGone, Undone, worldVars, doneVars
<1> QED BY <1>1, <1>2, <1>3, <1>4

LEMMA ReasonsRun ==
  ASSUME TypeOK, ReasonsAreKept, NEW s \in Sweeps, NEW p \in Pairs,
         \/ ClaimFinding(s, p) \/ AlreadyClaimed(s, p) \/ RuleGone(s, p)
         \/ Act(s, p) \/ CannotAct(s, p)
  PROVE  ReasonsAreKept'
<1> USE ConstantsAssumption
<1>1. CASE AlreadyClaimed(s, p)
  <2>1. UNCHANGED <<claim, reason, mute, pending, troubles>> /\ claim[p] = "done"
        /\ todo' = [todo EXCEPT ![s] = @ \ {p}]
    BY <1>1 DEF AlreadyClaimed, DropPair, runVars, doneVars
  <2> QED BY <2>1 DEF ReasonsAreKept, TypeOK
<1>2. CASE ClaimFinding(s, p)
  <2>1. UNCHANGED <<reason, mute, pending, todo, troubles>> /\ claim[p] = NoSweep /\ p \in todo[s]
        /\ claim' = [claim EXCEPT ![p] = s]
    BY <1>2 DEF ClaimFinding, Free, TurnOf, sweepVars, doneVars
  <2>2. p \notin reason /\ p \notin pending[s]
    BY <2>1 DEF ReasonsAreKept, TypeOK
  <2>3. \A k \in Pairs : k # p => claim'[k] = claim[k]
    BY <2>1 DEF TypeOK
  <2>4. claim'[p] = s
    BY <2>1 DEF TypeOK
  <2> QED BY <2>1, <2>2, <2>3, <2>4 DEF ReasonsAreKept
<1>3. CASE Act(s, p)
  <2>1. UNCHANGED <<claim, reason, mute, troubles>> /\ claim[p] = s /\ p \in todo[s]
        /\ todo' = [todo EXCEPT ![s] = @ \ {p}] /\ pending' = [pending EXCEPT ![s] = @ \cup {p}]
    BY <1>3 DEF Act, Claimed, TurnOf, DropPair, runVars, doneVars
  <2> QED BY <2>1 DEF ReasonsAreKept, TypeOK
<1>4. CASE CannotAct(s, p)
  <2>1. /\ UNCHANGED <<claim, mute, pending>> /\ claim[p] = s /\ p \in todo[s]
        /\ todo' = [todo EXCEPT ![s] = @ \ {p}]
    BY <1>4 DEF CannotAct, Claimed, TurnOf, DropPair, doneVars
  <2>2. (troubles > 0 => troubles' > 0) /\ (p \in reason' \/ troubles' > 0)
        /\ \A k \in Pairs : k # p => (k \in reason' <=> k \in reason)
    BY <1>4 DEF CannotAct, TypeOK
  <2>3. p \notin pending[s] /\ s # NoSweep
    BY <2>1 DEF ReasonsAreKept
  <2>4. \A k \in Sweeps : /\ \A r \in Pairs : r # p \/ k # s => (r \in todo'[k] <=> r \in todo[k])
                          /\ k = s => p \notin todo'[k]
    BY <2>1 DEF TypeOK
  <2> QED BY <2>1, <2>2, <2>3, <2>4 DEF ReasonsAreKept
<1>5. CASE RuleGone(s, p)
  BY <1>5 DEF RuleGone, Undone, ReasonsAreKept, TypeOK, doneVars
<1> QED BY <1>1, <1>2, <1>3, <1>4, <1>5

(* A run that commits settles every claim it holds, one way or the other;  *)
(* a run that dies gives them back.                                        *)
LEMMA ClaimsEnd ==
  ASSUME TypeOK, ClaimsMatchActs, ReasonsAreKept, NEW s \in Sweeps, CommitRun(s) \/ Dies(s)
  PROVE  ClaimsMatchActs'
<1>1. CASE CommitRun(s)
  <2>1. ASSUME NEW p \in Pairs, claim[p] = s
        PROVE  /\ claim'[p] = "done" /\ rule'[p[1]] # "deleted"
               /\ Ended(p)' = 1 /\ (p \in reason' <=> refused'[p] = 1)
    <3>1. acts[p] = 0 /\ refused[p] = 0 /\ mute[p] = 0 /\ rule[p[1]] # "deleted"
      <4>1. Ended(p) = 0 /\ rule[p[1]] # "deleted"
        BY <2>1, ConstantsAssumption DEF ClaimsMatchActs
      <4>2. acts[p] \in Nat /\ refused[p] \in Nat /\ mute[p] \in Nat
        BY DEF TypeOK
      <4>3. acts[p] + refused[p] + mute[p] = 0
        BY <4>1 DEF Ended
      <4>4. \A a, b, c \in Nat : a + b + c = 0 => a = 0 /\ b = 0 /\ c = 0
        OBVIOUS
      <4> QED BY <4>1, <4>2, <4>3, <4>4
    <3>2. /\ acts'[p] = IF p \in pending[s] THEN acts[p] + 1 ELSE acts[p]
          /\ refused'[p] = IF p \notin pending[s] /\ p \in reason THEN refused[p] + 1 ELSE refused[p]
          /\ mute'[p] = IF p \notin pending[s] /\ p \notin reason THEN mute[p] + 1 ELSE mute[p]
      BY <1>1, <2>1 DEF CommitRun
    <3>3. p \in reason => p \notin pending[s]
      BY <2>1 DEF ReasonsAreKept
    <3>4. reason' = reason /\ rule' = rule /\ claim'[p] = "done"
      BY <1>1, <2>1 DEF CommitRun
    <3> QED BY <3>1, <3>2, <3>3, <3>4 DEF Ended
  <2>2. ASSUME NEW p \in Pairs, claim[p] # s
        PROVE  claim'[p] = claim[p] /\ acts'[p] = acts[p] /\ refused'[p] = refused[p] /\ mute'[p] = mute[p]
    BY <1>1, <2>2 DEF CommitRun, TypeOK
  <2>3. rule' = rule /\ reason' = reason
    BY <1>1 DEF CommitRun
  <2> QED BY <2>1, <2>2, <2>3, ConstantsAssumption DEF ClaimsMatchActs, Ended
<1>2. CASE Dies(s)
  BY <1>2, ConstantsAssumption DEF ClaimsMatchActs, Ended, Dies, Undone, worldVars, doneVars
<1> QED BY <1>1, <1>2

LEMMA ReasonsEnd ==
  ASSUME TypeOK, ReasonsAreKept, NEW s \in Sweeps, CommitRun(s) \/ Dies(s)
  PROVE  ReasonsAreKept'
<1>1. CASE CommitRun(s)
  <2>1. ASSUME NEW p \in Pairs PROVE mute'[p] = 1 => troubles > 0
    <3>1. CASE claim[p] = s /\ p \notin pending[s] /\ p \notin reason
      BY <1>1, <3>1 DEF CommitRun, ReasonsAreKept
    <3>2. CASE ~(claim[p] = s /\ p \notin pending[s] /\ p \notin reason)
      BY <1>1, <3>2 DEF CommitRun, ReasonsAreKept
    <3> QED BY <3>1, <3>2
  <2>2. \A p \in Pairs : claim'[p] = IF claim[p] = s THEN "done" ELSE claim[p]
    BY <1>1 DEF CommitRun
  <2>3. reason' = reason /\ todo' = todo /\ troubles' = troubles
        /\ \A k \in Sweeps : k # s => pending'[k] = pending[k]
    BY <1>1 DEF CommitRun, TypeOK
  <2> QED BY <2>1, <2>2, <2>3, ConstantsAssumption DEF ReasonsAreKept
<1>2. CASE Dies(s)
  <2>1. \A p \in Pairs : claim'[p] = IF claim[p] = s THEN NoSweep ELSE claim[p]
    BY <1>2 DEF Dies, Undone
  <2>2. /\ reason' = {p \in reason : claim[p] # s} /\ mute' = mute /\ troubles' > 0
        /\ \A k \in Sweeps : k # s => pending'[k] = pending[k] /\ todo'[k] = todo[k]
    BY <1>2 DEF Dies, Undone, TypeOK, doneVars
  <2> QED BY <2>1, <2>2, ConstantsAssumption DEF ReasonsAreKept
<1> QED BY <1>1, <1>2

Claims == ClaimsMatchActs /\ ReasonsAreKept

LEMMA ClaimsNext == TypeOK /\ Claims /\ [Next]_vars => Claims'
<1>1. ASSUME Claims, UNCHANGED vars PROVE Claims'
  BY <1>1, ClaimsStay, ReasonsStay DEF Claims, vars, worldVars, sweepVars, runVars, doneVars
<1> QED BY <1>1, ClaimsWorld, ReasonsWorld, ClaimsSweep, ClaimsRun, ReasonsRun, ClaimsEnd, ReasonsEnd
        DEF Claims, Next, GoesOn

(* An automation acts once at most on one finding, however many sweeps     *)
(* overlap or are run again.                                               *)
THEOREM ActsOnce == Spec => []NeverActsTwice
<1>1. TypeOK /\ Claims => NeverActsTwice
  BY DEF TypeOK, Claims, ClaimsMatchActs, Ended, NeverActsTwice
<1>2. Init => Claims
  BY ClaimsInit DEF Claims
<1> QED BY <1>1, <1>2, InitTypes, NextTypes, ClaimsNext, PTL DEF Spec

(* A claim that stands is of something done, or on record as not done, or  *)
(* the database has failed to put it there.                                *)
THEOREM ClaimsAreOfActs == Spec => []ClaimsAreKept
<1>1. Claims => ClaimsAreKept
  BY DEF Claims, ClaimsMatchActs, ReasonsAreKept, Ended, ClaimsAreKept
<1>2. Init => Claims
  BY ClaimsInit DEF Claims
<1> QED BY <1>1, <1>2, InitTypes, NextTypes, ClaimsNext, PTL DEF Spec

-----------------------------------------------------------------------------
(* Acceptances: only a person and the operators touch them.                *)

LEMMA AcceptanceInit == Init => AcceptanceIsOfThisTime
  BY DEF Init, AcceptanceIsOfThisTime

LEMMA AcceptanceNext == TypeOK /\ AcceptanceIsOfThisTime /\ [Next]_vars => AcceptanceIsOfThisTime'
<1> SUFFICES ASSUME TypeOK, AcceptanceIsOfThisTime, [Next]_vars PROVE AcceptanceIsOfThisTime'
  OBVIOUS
<1> USE DEF AcceptanceIsOfThisTime
<1>1. ASSUME UNCHANGED findingVars PROVE AcceptanceIsOfThisTime'
  BY <1>1 DEF findingVars, rowVars
<1>2. ASSUME NEW s \in Sweeps, NEW operator, NEW here, NEW next, Reconcile(s, operator, here, next)
      PROVE  AcceptanceIsOfThisTime'
  BY <1>2 DEF Reconcile, Verdict, StandingAcceptance, TypeOK
<1>3. ASSUME NEW x \in Subjects, Accept(x) \/ TakeBack(x) \/ Lapse(x) PROVE AcceptanceIsOfThisTime'
  BY <1>3 DEF Accept, TakeBack, Lapse, TypeOK, rowVars
<1>4. ASSUME World PROVE AcceptanceIsOfThisTime'
  BY <1>1, <1>3, <1>4 DEF World, CustomerWrites, WaitsLong, Answered, AssignByHand, SetStatus, Leaves,
       SwitchRule, DeleteRule
<1>5. ASSUME NEW s \in Sweeps, StartSweep(s) \/ Operate(s) \/ Tell(s) \/ BeginRun(s) PROVE AcceptanceIsOfThisTime'
  BY <1>1, <1>2, <1>5 DEF StartSweep, Operate, LookFor, OperatorFails, Tell, BeginRun
<1>6. ASSUME NEW s \in Sweeps, NEW p \in Pairs,
             \/ ClaimFinding(s, p) \/ AlreadyClaimed(s, p) \/ RuleGone(s, p)
             \/ Act(s, p) \/ CannotAct(s, p)
      PROVE  AcceptanceIsOfThisTime'
  BY <1>1, <1>6 DEF ClaimFinding, AlreadyClaimed, Act, CannotAct, RuleGone
<1>7. ASSUME NEW s \in Sweeps, CommitRun(s) \/ Dies(s) PROVE AcceptanceIsOfThisTime'
  BY <1>1, <1>7 DEF CommitRun, Dies
<1>8. CASE UNCHANGED vars
  BY <1>1, <1>8 DEF vars
<1> QED BY <1>4, <1>5, <1>6, <1>7, <1>8 DEF Next, GoesOn

(* A person's acceptance is of the time the finding was true, never of one *)
(* that has ended since.                                                   *)
THEOREM AcceptancesEndWithTheFinding == Spec => []AcceptanceIsOfThisTime
  BY InitTypes, NextTypes, AcceptanceInit, AcceptanceNext, PTL DEF Spec

-----------------------------------------------------------------------------
(* Telling: what a sweep found is of the operator at hand, and so not yet  *)
(* among what it has raised; each time a finding becomes true it goes to   *)
(* the hands of one sweep, and from there it is told or lost once.         *)

Worth(s) == WorthTelling(raised[s])

Holders(x) == {s \in Sweeps : x \in Worth(s)}

LEMMA WorthIs ==
  ASSUME NEW F \in SUBSET (Subjects \X Severities), NEW x
  PROVE  x \in WorthTelling(F) <=> \E v \in Loud : <<x, v>> \in F
<1>1. ASSUME x \in WorthTelling(F) PROVE \E v \in Loud : <<x, v>> \in F
  <2>1. PICK f \in F : f[2] \in Loud /\ x = f[1]
    BY <1>1 DEF WorthTelling, SubjectsOf
  <2>2. f = <<x, f[2]>>
    BY <2>1
  <2> QED BY <2>1, <2>2
<1>2. ASSUME NEW v \in Loud, <<x, v>> \in F PROVE x \in WorthTelling(F)
  <2>1. <<x, v>> \in {f \in F : f[2] \in Loud} /\ <<x, v>>[1] = x
    BY <1>2
  <2> QED BY <2>1 DEF WorthTelling, SubjectsOf
<1> QED BY <1>1, <1>2

LEMMA NothingIsWorth == WorthTelling({}) = {} /\ SubjectsOf({}) = {}
  BY DEF WorthTelling, SubjectsOf

LEMMA HoldersMove ==
  ASSUME TypeOK, NEW x \in Subjects, NEW s \in Sweeps,
         \A k \in Sweeps \ {s} : Worth(k)' = Worth(k)
  PROVE  /\ Cardinality(Holders(x)) \in Nat
         /\ x \in Worth(s)' /\ x \notin Worth(s) => Cardinality(Holders(x)') = Cardinality(Holders(x)) + 1
         /\ x \notin Worth(s)' /\ x \in Worth(s) => Cardinality(Holders(x)) = Cardinality(Holders(x)') + 1
         /\ (x \in Worth(s)' <=> x \in Worth(s)) => Cardinality(Holders(x)') = Cardinality(Holders(x))
         /\ Cardinality(Holders(x)') \in Nat
<1>1. IsFiniteSet(Sweeps) /\ Holders(x) \subseteq Sweeps /\ Holders(x)' \subseteq Sweeps
  BY ConstantsAssumption DEF Holders
<1>2. /\ IsFiniteSet(Holders(x)) /\ Cardinality(Holders(x)) \in Nat
      /\ IsFiniteSet(Holders(x)') /\ Cardinality(Holders(x)') \in Nat
  BY <1>1, FS_Subset, FS_CardinalityType
<1>3. ASSUME x \in Worth(s)', x \notin Worth(s)
      PROVE  Cardinality(Holders(x)') = Cardinality(Holders(x)) + 1
  <2>1. Holders(x)' = Holders(x) \cup {s} /\ s \notin Holders(x)
    BY <1>3 DEF Holders
  <2> QED BY <1>2, <2>1, FS_AddElement
<1>4. ASSUME x \notin Worth(s)', x \in Worth(s)
      PROVE  Cardinality(Holders(x)) = Cardinality(Holders(x)') + 1
  <2>1. Holders(x) = Holders(x)' \cup {s} /\ s \notin Holders(x)'
    BY <1>4 DEF Holders
  <2> QED BY <1>2, <2>1, FS_AddElement
<1>5. ASSUME x \in Worth(s)' <=> x \in Worth(s)
      PROVE  Cardinality(Holders(x)') = Cardinality(Holders(x))
  <2>1. Holders(x)' = Holders(x)
    BY <1>5 DEF Holders
  <2> QED BY <2>1
<1> QED BY <1>2, <1>3, <1>4, <1>5

Told == FoundByItsOperator /\ \A x \in Subjects : due[x] = told[x] + untold[x] + Cardinality(Holders(x))

LEMMA ToldInit == Init => Told
<1> SUFFICES ASSUME Init PROVE Told
  OBVIOUS
<1>1. \A s \in Sweeps : Worth(s) = {} /\ WorthTelling(found[s]) = {}
  BY NothingIsWorth DEF Init, Worth
<1>2. FoundByItsOperator
  BY <1>1 DEF FoundByItsOperator, Worth
<1>3. \A x \in Subjects : due[x] = 0 /\ told[x] = 0 /\ untold[x] = 0
  BY DEF Init
<1>4. \A x \in Subjects : Holders(x) = {}
  BY <1>1 DEF Holders
<1>5. Cardinality({}) = 0
  BY FS_EmptySet
<1> QED BY <1>2, <1>3, <1>4, <1>5 DEF Told

(* A step that leaves the telling alone.                                   *)
LEMMA ToldStays ==
  ASSUME Told, UNCHANGED <<pc, found, raised, due, tellVars>>
  PROVE  Told'
  BY DEF Told, FoundByItsOperator, Holders, Worth, tellVars

(* What an operator finds is its own.                                      *)
LEMMA FoundIsOfTheOperator ==
  ASSUME TypeOK, NEW s \in Sweeps, NEW operator, NEW here, NEW next, LookFor(s, operator, here, next)
  PROVE  \A x \in WorthTelling(found'[s]) : OperatorOf(x) = operator
<1>1. found'[s] = {<<x, Severity(x)>> : x \in {y \in Subjects : OperatorOf(y) = operator /\ Holds(y)}}
  BY DEF LookFor, TypeOK
<1>2. \A f \in found'[s] : OperatorOf(f[1]) = operator
  BY <1>1
<1> QED BY <1>2 DEF WorthTelling, SubjectsOf

LEMMA ToldLook ==
  ASSUME TypeOK, Told, NEW s \in Sweeps,
         StartSweep(s) \/ LookFor(s, "customer-waiting", "look1", "write1")
                       \/ LookFor(s, "unowned-followup", "look2", "write2")
                       \/ OperatorFails(s, "look1", "write1", "look2")
                       \/ OperatorFails(s, "look2", "write2", "tell") \/ BeginRun(s)
  PROVE  Told'
<1>1. UNCHANGED <<raised, due, told, untold>>
  BY DEF StartSweep, LookFor, OperatorFails, BeginRun, findingVars, tellVars
<1>2. FoundByItsOperator'
  <2>1. CASE StartSweep(s)
    BY <2>1 DEF StartSweep, Told, FoundByItsOperator, TypeOK
  <2>2. CASE LookFor(s, "customer-waiting", "look1", "write1")
    <3>1. \A x \in WorthTelling(found'[s]) : OperatorOf(x) = "customer-waiting"
      BY <2>2, FoundIsOfTheOperator
    <3>2. /\ pc[s] = "look1" /\ pc'[s] = "write1" /\ raised' = raised
          /\ \A k \in Sweeps \ {s} : pc'[k] = pc[k] /\ found'[k] = found[k]
      BY <2>2 DEF LookFor, TypeOK
    <3> QED BY <3>1, <3>2 DEF Told, FoundByItsOperator
  <2>3. CASE LookFor(s, "unowned-followup", "look2", "write2")
    <3>1. \A x \in WorthTelling(found'[s]) : OperatorOf(x) = "unowned-followup"
      BY <2>3, FoundIsOfTheOperator
    <3>2. /\ pc[s] = "look2" /\ pc'[s] = "write2" /\ raised' = raised
          /\ \A k \in Sweeps \ {s} : pc'[k] = pc[k] /\ found'[k] = found[k]
      BY <2>3 DEF LookFor, TypeOK
    <3> QED BY <3>1, <3>2 DEF Told, FoundByItsOperator
  <2>4. CASE OperatorFails(s, "look1", "write1", "look2")
    BY <2>4 DEF OperatorFails, Told, FoundByItsOperator, TypeOK
  <2>5. CASE OperatorFails(s, "look2", "write2", "tell")
    BY <2>5 DEF OperatorFails, Told, FoundByItsOperator, TypeOK
  <2>6. CASE BeginRun(s)
    BY <2>6 DEF BeginRun, Told, FoundByItsOperator, TypeOK
  <2> QED BY <2>1, <2>2, <2>3, <2>4, <2>5, <2>6
<1> QED BY <1>1, <1>2 DEF Told, Holders, Worth

LEMMA ToldWrite ==
  ASSUME TypeOK, Told, NEW s \in Sweeps,
         NEW operator, NEW here \in {"write1", "write2"}, NEW next,
         \/ operator = "customer-waiting" /\ here = "write1" /\ next = "look2"
         \/ operator = "unowned-followup" /\ here = "write2" /\ next = "tell",
         Reconcile(s, operator, here, next)
  PROVE  Told'
<1>1. /\ raised' = [raised EXCEPT ![s] = @ \cup {f \in found[s] : NewlyRaised(f[1])}]
      /\ pc[s] = here /\ pc' = [pc EXCEPT ![s] = next] /\ found' = [found EXCEPT ![s] = {}]
      /\ told' = told /\ untold' = untold
      /\ due' = [x \in Subjects |->
                   IF x \in SubjectsOf(found[s]) /\ finding[x] # "open" /\ x \in WorthTelling(found[s])
                   THEN due[x] + 1 ELSE due[x]]
  BY DEF Reconcile, tellVars
<1>2. /\ pc \in [Sweeps -> Phases]
      /\ found \in [Sweeps -> SUBSET (Subjects \X Severities)]
      /\ raised \in [Sweeps -> SUBSET (Subjects \X Severities)]
      /\ due \in [Subjects -> Nat] /\ told \in [Subjects -> Nat] /\ untold \in [Subjects -> Nat]
  BY DEF TypeOK, Phases
<1>3. \A x \in WorthTelling(found[s]) : OperatorOf(x) = operator /\ x \notin Worth(s)
  <2>1. WorthTelling(found[s]) \subseteq Subjects
    BY <1>2, SubjectsTyped
  <2> QED BY <1>1, <1>2, <2>1 DEF Told, FoundByItsOperator, Worth
<1>4. ASSUME NEW x \in Subjects
      PROVE  x \in Worth(s)' <=> x \in Worth(s) \/ (x \in WorthTelling(found[s]) /\ finding[x] # "open")
  <2>1. raised'[s] = raised[s] \cup {f \in found[s] : NewlyRaised(f[1])}
    BY <1>1, <1>2
  <2>2. \A v : <<x, v>> \in raised'[s] <=> <<x, v>> \in raised[s] \/ (<<x, v>> \in found[s] /\ finding[x] # "open")
    BY <2>1 DEF NewlyRaised, StandingAcceptance
  <2>3. raised[s] \in SUBSET (Subjects \X Severities) /\ found[s] \in SUBSET (Subjects \X Severities)
        /\ raised'[s] \in SUBSET (Subjects \X Severities)
    BY <1>2, <2>1
  <2>4. x \in WorthTelling(raised'[s]) <=> \E v \in Loud : <<x, v>> \in raised'[s]
    BY <2>3, WorthIs
  <2>5. x \in WorthTelling(raised[s]) <=> \E v \in Loud : <<x, v>> \in raised[s]
    BY <2>3, WorthIs
  <2>6. x \in WorthTelling(found[s]) <=> \E v \in Loud : <<x, v>> \in found[s]
    BY <2>3, WorthIs
  <2> QED BY <2>2, <2>4, <2>5, <2>6 DEF Worth
<1>5. FoundByItsOperator'
  <2>1. \A x \in Subjects : x \in Worth(s) => OperatorOf(x) = "customer-waiting"
    BY <1>1, <1>2 DEF Told, FoundByItsOperator, Worth
  <2>2. \A k \in Sweeps \ {s} : raised'[k] = raised[k] /\ pc'[k] = pc[k] /\ found'[k] = found[k]
    BY <1>1, <1>2
  <2>3. pc'[s] = next /\ WorthTelling(found'[s]) = {}
    BY <1>1, <1>2, NothingIsWorth
  <2>4. \A x \in Subjects : x \in WorthTelling(raised'[s]) => OperatorOf(x) = "customer-waiting" \/ next = "tell"
    BY <1>3, <1>4, <2>1 DEF Worth
  <2>5. \A x \in Subjects :
          /\ pc'[s] = "write1" /\ x \in WorthTelling(found'[s]) => OperatorOf(x) = "customer-waiting"
          /\ pc'[s] = "write2" /\ x \in WorthTelling(found'[s]) => OperatorOf(x) = "unowned-followup"
          /\ x \in WorthTelling(raised'[s]) => pc'[s] \in {"look2", "write2", "tell"}
          /\ x \in WorthTelling(raised'[s]) /\ pc'[s] # "tell" => OperatorOf(x) = "customer-waiting"
    BY <2>3, <2>4
  <2> QED BY <2>2, <2>5 DEF Told, FoundByItsOperator
<1>6. ASSUME NEW x \in Subjects
      PROVE  due'[x] = told'[x] + untold'[x] + Cardinality(Holders(x)')
  <2>1. \A k \in Sweeps \ {s} : Worth(k)' = Worth(k)
    BY <1>1, <1>2 DEF Worth
  <2>2. /\ due[x] = told[x] + untold[x] + Cardinality(Holders(x))
        /\ due[x] \in Nat /\ told[x] \in Nat /\ untold[x] \in Nat
        /\ told'[x] = told[x] /\ untold'[x] = untold[x]
    BY <1>1, <1>2 DEF Told
  <2>3. CASE x \in WorthTelling(found[s]) /\ finding[x] # "open"
    <3>1. Cardinality(Holders(x)') = Cardinality(Holders(x)) + 1 /\ Cardinality(Holders(x)) \in Nat
      BY <1>3, <1>4, <2>1, <2>3, HoldersMove
    <3>2. x \in SubjectsOf(found[s])
      BY <1>2, <2>3, SubjectsTyped
    <3>3. due'[x] = due[x] + 1
      BY <1>1, <2>3, <3>2
    <3> QED BY <2>2, <3>1, <3>3
  <2>4. CASE ~(x \in WorthTelling(found[s]) /\ finding[x] # "open")
    <3>1. Cardinality(Holders(x)') = Cardinality(Holders(x))
      BY <1>4, <2>1, <2>4, HoldersMove
    <3>2. due'[x] = due[x]
      BY <1>1, <2>4
    <3> QED BY <2>2, <3>1, <3>2
  <2> QED BY <2>3, <2>4
<1> QED BY <1>5, <1>6 DEF Told

(* Told, refused or dead: what the sweep had raised is let go, and counted. *)
LEMMA ToldLetGo ==
  ASSUME TypeOK, Told, NEW s \in Sweeps, Tell(s) \/ Dies(s)
  PROVE  Told'
<1>1. /\ raised' = [raised EXCEPT ![s] = {}] /\ due' = due
      /\ pc' = [pc EXCEPT ![s] = pc'[s]] /\ pc'[s] \in {"begin", "idle"}
      /\ found' = [found EXCEPT ![s] = found'[s]]
  BY DEF Tell, Dies, Undone, findingVars, TypeOK
<1>2. /\ pc \in [Sweeps -> Phases]
      /\ found \in [Sweeps -> SUBSET (Subjects \X Severities)]
      /\ raised \in [Sweeps -> SUBSET (Subjects \X Severities)]
      /\ due \in [Subjects -> Nat] /\ told \in [Subjects -> Nat] /\ untold \in [Subjects -> Nat]
  BY DEF TypeOK, Phases
<1>3. \A k \in Sweeps \ {s} : raised'[k] = raised[k] /\ pc'[k] = pc[k] /\ found'[k] = found[k]
  BY <1>1, <1>2
<1>4. Worth(s)' = {}
  BY <1>1, <1>2, NothingIsWorth DEF Worth
<1>5. FoundByItsOperator'
  <2>1. \A x \in Subjects : x \notin WorthTelling(raised'[s])
    BY <1>4 DEF Worth
  <2> QED BY <1>1, <1>3, <2>1 DEF Told, FoundByItsOperator
<1>6. ASSUME NEW x \in Subjects
      PROVE  due'[x] = told'[x] + untold'[x] + Cardinality(Holders(x)')
  <2>1. told'[x] + untold'[x] = IF x \in Worth(s) THEN told[x] + untold[x] + 1 ELSE told[x] + untold[x]
    <3>1. CASE told' = [y \in Subjects |-> IF y \in Worth(s) THEN told[y] + 1 ELSE told[y]] /\ untold' = untold
      BY <1>2, <3>1
    <3>2. CASE untold' = [y \in Subjects |-> IF y \in Worth(s) THEN untold[y] + 1 ELSE untold[y]] /\ told' = told
      BY <1>2, <3>2
    <3> QED BY <3>1, <3>2 DEF Tell, Dies, Worth
  <2>2. /\ due[x] = told[x] + untold[x] + Cardinality(Holders(x))
        /\ due[x] \in Nat /\ told[x] \in Nat /\ untold[x] \in Nat /\ due'[x] = due[x]
    BY <1>1, <1>2 DEF Told
  <2>3. \A k \in Sweeps \ {s} : Worth(k)' = Worth(k)
    BY <1>3 DEF Worth
  <2>4. CASE x \in Worth(s)
    <3>1. Cardinality(Holders(x)) = Cardinality(Holders(x)') + 1 /\ Cardinality(Holders(x)') \in Nat
      BY <1>4, <2>3, <2>4, HoldersMove
    <3>2. told'[x] + untold'[x] = told[x] + untold[x] + 1
      BY <2>1, <2>4
    <3> QED BY <2>2, <3>1, <3>2
  <2>5. CASE x \notin Worth(s)
    <3>1. Cardinality(Holders(x)') = Cardinality(Holders(x)) /\ Cardinality(Holders(x)') \in Nat
      BY <1>4, <2>3, <2>5, HoldersMove
    <3>2. told'[x] + untold'[x] = told[x] + untold[x]
      BY <2>1, <2>5
    <3> QED BY <2>2, <3>1, <3>2
  <2> QED BY <2>4, <2>5
<1> QED BY <1>5, <1>6 DEF Told

LEMMA ToldRun ==
  ASSUME TypeOK, Told, NEW s \in Sweeps, NEW p \in Pairs,
         \/ ClaimFinding(s, p) \/ AlreadyClaimed(s, p) \/ RuleGone(s, p)
         \/ Act(s, p) \/ CannotAct(s, p)
  PROVE  Told'
<1>1. CASE ClaimFinding(s, p) \/ AlreadyClaimed(s, p) \/ Act(s, p) \/ CannotAct(s, p)
  BY <1>1, ToldStays DEF ClaimFinding, AlreadyClaimed, Act, CannotAct, findingVars, sweepVars
<1>2. CASE RuleGone(s, p)
  <2>1. /\ pc[s] = "run" /\ pc' = [pc EXCEPT ![s] = "idle"]
        /\ found' = [found EXCEPT ![s] = found'[s]] /\ UNCHANGED <<raised, due, told, untold>>
    BY <1>2 DEF RuleGone, TurnOf, Undone, findingVars, tellVars, TypeOK
  <2>2. FoundByItsOperator'
    BY <2>1 DEF Told, FoundByItsOperator, TypeOK
  <2> QED BY <2>1, <2>2 DEF Told, Holders, Worth
<1> QED BY <1>1, <1>2

LEMMA ToldNext == TypeOK /\ Told /\ [Next]_vars => Told'
<1> SUFFICES ASSUME TypeOK, Told, [Next]_vars PROVE Told'
  OBVIOUS
<1>1. ASSUME World PROVE Told'
  BY <1>1, ToldStays DEF World, CustomerWrites, WaitsLong, Answered, AssignByHand, SetStatus, Leaves,
       SwitchRule, DeleteRule, Accept, TakeBack, Lapse, findingVars, sweepVars
<1>2. ASSUME NEW s \in Sweeps, Operate(s) PROVE Told'
  BY <1>2, ToldLook, ToldWrite DEF Operate
<1>3. ASSUME NEW s \in Sweeps, CommitRun(s) PROVE Told'
  <2>1. /\ pc[s] = "run" /\ pc' = [pc EXCEPT ![s] = "idle"]
        /\ UNCHANGED <<found, raised, due, told, untold>>
    BY <1>3 DEF CommitRun, findingVars, tellVars
  <2>2. FoundByItsOperator'
    BY <2>1 DEF Told, FoundByItsOperator, TypeOK
  <2> QED BY <2>1, <2>2 DEF Told, Holders, Worth
<1>4. CASE UNCHANGED vars
  BY <1>4, ToldStays DEF vars, findingVars, sweepVars
<1> QED BY <1>1, <1>2, <1>3, <1>4, ToldLook, ToldRun, ToldLetGo DEF Next, GoesOn

(* What becomes true at a severity that is told is told once, or lost once *)
(* with a sweep that died or a post that was refused, and never told by    *)
(* two sweeps.                                                             *)
THEOREM WhatIsNewIsToldOnce == Spec => []ToldOnce
<1>1. Told => ToldOnce
  BY DEF Told, ToldOnce, Holders, Worth
<1> QED BY <1>1, InitTypes, NextTypes, ToldInit, ToldNext, PTL DEF Spec
===========================================================================
