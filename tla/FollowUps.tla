----------------------------- MODULE FollowUps -----------------------------
(***************************************************************************)
(* The operators, the findings they keep, and the automations that act on  *)
(* them.  Every ten minutes a sweep asks each operator what is wrong with  *)
(* a business, writes the answer over the last one, tells the outside what *)
(* is new, and lets the business's automations write follow-ups and give   *)
(* them away.  Meanwhile customers write, people take follow-ups, accept   *)
(* findings and change the automations, and a sweep that was thought dead  *)
(* may still run beside the next one.                                      *)
(*                                                                         *)
(* One business; two of its operators, those the automations may act on:   *)
(* customer-waiting, about conversations, and unowned-followup, about      *)
(* follow-ups.                                                             *)
(***************************************************************************)
EXTENDS Integers, FiniteSets

CONSTANTS Conversations, Tasks, People, Nobody,
          Rules,        \* the automations
          Action,       \* Rules -> what each does
          Assignee,     \* Rules -> whom it gives to; not used by one that writes
          Turn,         \* the order in which a run goes through rules and findings
          WaitingAtStart, OpenAtStart,  \* who waits and what is to do when we look
          Sweeps, NoSweep,
          Loud,         \* the severities the outside is told of; none without a webhook
          Limit,        \* how many open findings a run takes up
          MaxEvents,    \* bound: what happens in the world
          MaxTroubles   \* bound: crashes and failures

Subjects   == Conversations \cup Tasks
Severities == {"warn", "urgent"}

ASSUME ConstantsAssumption ==
  /\ Conversations \cap Tasks = {} /\ OpenAtStart \subseteq Tasks
  /\ WaitingAtStart \subseteq Conversations
  /\ Nobody \notin People /\ NoSweep \notin Sweeps /\ "done" \notin Sweeps \cup {NoSweep}
  /\ Action \in [Rules -> {"assign_followup", "create_followup"}]
  /\ Assignee \in [Rules -> People]
  /\ Turn \in [Rules \X Subjects -> Nat] /\ IsFiniteSet(Sweeps)
  /\ Loud \subseteq Severities /\ Limit \in Nat
  /\ MaxEvents \in Nat /\ MaxTroubles \in Nat

VARIABLES
  waiting,    \* conversations whose customer has had no answer
  long,       \* those that have waited for WAITING_URGENT_HOURS
  task,       \* each follow-up: none | open | done
  owner,      \* who has it
  present,    \* people who work here
  rule,       \* each automation: active | paused | deleted
  finding,    \* its row: none | open | resolved
  urgent,     \* the open ones whose row says urgent
  earlier,    \* <<y, x>>: both are open, and y was first seen before x
  accepted,   \* a person's acceptance of it: no | yes | lapsed (its date has passed)
  claim,      \* automation_runs: NoSweep, the sweep that has inserted it, or done
  reason,     \* the claims whose row says why nothing was done
  pc,         \* where each sweep is
  found,      \* what the operator at hand has found, with its severity
  raised,     \* what has become true in this sweep, with its severity
  todo,       \* the rules and findings its run has left
  pending,    \* what its run has done, not yet committed
  opened,     \* history: how often each finding became true
  acceptedAt, \* history: which of those times an acceptance is of
  due,        \* history: how often it did so at a severity the outside is told of
  told,       \* history: how often the outside was told
  untold,     \* history: what a sweep that died, or a refused post, never told
  acts,       \* history: how often each rule has acted on each finding
  refused,    \* history: how often it could not, and its row says why
  mute,       \* history: how often it could not, and nothing says why
  events, troubles

worldVars   == <<waiting, long, task, owner, present, rule>>
rowVars     == <<finding, urgent, earlier>>
findingVars == <<rowVars, accepted, opened, acceptedAt, due>>
sweepVars   == <<pc, found, raised, todo, pending>>
doneVars    == <<acts, refused, mute>>
runVars     == <<claim, reason, doneVars>>
tellVars    == <<told, untold>>
vars        == <<worldVars, findingVars, sweepVars, runVars, tellVars, events, troubles>>

(* Each kind of automation is about the findings of one operator.          *)
Pairs == {p \in Rules \X Subjects : Action[p[1]] = "assign_followup" <=> p[2] \in Tasks}

Init ==
  /\ waiting = WaitingAtStart /\ long = {}
  /\ task = [t \in Tasks |-> IF t \in OpenAtStart THEN "open" ELSE "none"]
  /\ owner = [t \in Tasks |-> Nobody]
  /\ present = People
  /\ rule = [r \in Rules |-> "active"]
  /\ finding = [x \in Subjects |-> "none"] /\ urgent = {} /\ earlier = {}
  /\ accepted = [x \in Subjects |-> "no"]
  /\ claim = [p \in Pairs |-> NoSweep] /\ reason = {}
  /\ pc = [s \in Sweeps |-> "idle"]
  /\ found = [s \in Sweeps |-> {}]
  /\ raised = [s \in Sweeps |-> {}]
  /\ todo = [s \in Sweeps |-> {}]
  /\ pending = [s \in Sweeps |-> {}]
  /\ opened = [x \in Subjects |-> 0] /\ acceptedAt = [x \in Subjects |-> 0]
  /\ due = [x \in Subjects |-> 0]
  /\ told = [x \in Subjects |-> 0] /\ untold = [x \in Subjects |-> 0]
  /\ acts = [p \in Pairs |-> 0] /\ refused = [p \in Pairs |-> 0] /\ mute = [p \in Pairs |-> 0]
  /\ events = 0 /\ troubles = 0

-----------------------------------------------------------------------------
(* The world.                                                              *)

Happens == events < MaxEvents /\ events' = events + 1

CustomerWrites(c) ==
  /\ c \notin waiting /\ Happens
  /\ waiting' = waiting \cup {c}
  /\ UNCHANGED <<long, task, owner, present, rule, findingVars, sweepVars, runVars, tellVars, troubles>>

WaitsLong(c) ==
  /\ c \in waiting \ long /\ Happens
  /\ long' = long \cup {c}
  /\ UNCHANGED <<waiting, task, owner, present, rule, findingVars, sweepVars, runVars, tellVars, troubles>>

Answered(c) ==
  /\ c \in waiting /\ Happens
  /\ waiting' = waiting \ {c} /\ long' = long \ {c}
  /\ UNCHANGED <<task, owner, present, rule, findingVars, sweepVars, runVars, tellVars, troubles>>

(* A run that has updated a follow-up holds its row until it commits.      *)
RowFree(t) == \A s \in Sweeps : \A p \in pending[s] : Action[p[1]] = "assign_followup" => p[2] # t

(* assignTask from the board: given to someone, or to nobody again.        *)
AssignByHand(t, who) ==
  /\ task[t] # "none" /\ owner[t] # who /\ RowFree(t) /\ Happens
  /\ who \in present \cup {Nobody}
  /\ owner' = [owner EXCEPT ![t] = who]
  /\ UNCHANGED <<waiting, long, task, present, rule, findingVars, sweepVars, runVars, tellVars, troubles>>

(* completeTask, setTaskStatus.                                            *)
SetStatus(t, status) ==
  /\ task[t] \in {"open", "done"} \ {status} /\ RowFree(t) /\ Happens
  /\ task' = [task EXCEPT ![t] = status]
  /\ UNCHANGED <<waiting, long, owner, present, rule, findingVars, sweepVars, runVars, tellVars, troubles>>

Leaves(who) ==
  /\ who \in present /\ Happens
  /\ present' = present \ {who}
  /\ UNCHANGED <<waiting, long, task, owner, rule, findingVars, sweepVars, runVars, tellVars, troubles>>

(* setAutomationActive.                                                    *)
SwitchRule(r) ==
  /\ rule[r] # "deleted" /\ Happens
  /\ rule' = [rule EXCEPT ![r] = IF @ = "active" THEN "paused" ELSE "active"]
  /\ UNCHANGED <<waiting, long, task, owner, present, findingVars, sweepVars, runVars, tellVars, troubles>>

(* deleteAutomation: its runs go with it; it waits for those not committed. *)
DeleteRule(r) ==
  /\ rule[r] # "deleted" /\ Happens
  /\ \A p \in Pairs : p[1] = r => claim[p] \notin Sweeps
  /\ rule' = [rule EXCEPT ![r] = "deleted"]
  /\ claim' = [p \in Pairs |-> IF p[1] = r THEN NoSweep ELSE claim[p]]
  /\ reason' = {p \in reason : p[1] # r}
  /\ UNCHANGED <<waiting, long, task, owner, present, findingVars, sweepVars, doneVars, tellVars, troubles>>

(* setFindingDismissal: a person accepts a finding for a time, takes the   *)
(* acceptance back, or its time passes.                                    *)
Accept(x) ==
  /\ finding[x] = "open" /\ Happens
  /\ accepted' = [accepted EXCEPT ![x] = "yes"]
  /\ acceptedAt' = [acceptedAt EXCEPT ![x] = opened[x]]
  /\ UNCHANGED <<worldVars, rowVars, opened, due, sweepVars, runVars, tellVars, troubles>>

TakeBack(x) ==
  /\ finding[x] = "open" /\ accepted[x] # "no" /\ Happens
  /\ accepted' = [accepted EXCEPT ![x] = "no"]
  /\ UNCHANGED <<worldVars, rowVars, opened, due, acceptedAt, sweepVars, runVars, tellVars, troubles>>

Lapse(x) ==
  /\ accepted[x] = "yes" /\ Happens
  /\ accepted' = [accepted EXCEPT ![x] = "lapsed"]
  /\ UNCHANGED <<worldVars, rowVars, opened, due, acceptedAt, sweepVars, runVars, tellVars, troubles>>

-----------------------------------------------------------------------------
(* The operators.                                                          *)

OperatorOf(x) == IF x \in Conversations THEN "customer-waiting" ELSE "unowned-followup"

CustomerWaiting(c) == c \in waiting

(* A follow-up is nobody's job only where there is somebody to give it to. *)
NobodysJob(t) == task[t] = "open" /\ owner[t] = Nobody /\ present # {}

(* What the operators report.                                              *)
Holds(x) == IF x \in Conversations THEN CustomerWaiting(x) ELSE NobodysJob(x)

(* How bad it is: a follow-up without an owner is always a warning, and a  *)
(* customer who waits becomes urgent with time.                            *)
Severity(x) == IF x \in long THEN "urgent" ELSE "warn"

(* A worker takes one sweep at a time; two run at once when one was        *)
(* thought dead, or while one worker replaces another.                     *)
StartSweep(s) ==
  /\ pc[s] = "idle"
  /\ IF \A k \in Sweeps : pc[k] = "idle"
       THEN UNCHANGED troubles
       ELSE troubles < MaxTroubles /\ troubles' = troubles + 1
  /\ pc' = [pc EXCEPT ![s] = "look1"]
  /\ UNCHANGED <<worldVars, findingVars, found, raised, todo, pending, runVars, tellVars, events>>

(* An operator reads what is true now ...                                  *)
LookFor(s, operator, here, next) ==
  /\ pc[s] = here
  /\ found' = [found EXCEPT ![s] =
                 {<<x, Severity(x)>> : x \in {y \in Subjects : OperatorOf(y) = operator /\ Holds(y)}}]
  /\ pc' = [pc EXCEPT ![s] = next]
  /\ UNCHANGED <<worldVars, findingVars, raised, todo, pending, runVars, tellVars, events, troubles>>

(* MUTANT: an acceptance is of the fingerprint, for ever.                  *)
KeptAcceptance(x) == accepted[x]

(* The acceptance that stands after x was found again: none if the finding *)
(* had ended, or if its time has passed.                                   *)
StandingAcceptance(x) == IF finding[x] # "open" \/ accepted[x] = "lapsed" THEN "no" ELSE accepted[x]

(* MUTANT: whatever is found is told.                                      *)
NewlyRaisedAlways(x) == TRUE

(* first_seen_at = last_seen_at and dismissed_at is null.                  *)
NewlyRaised(x) == finding[x] # "open" /\ StandingAcceptance(x) = "no"

SubjectsOf(findings) == {f[1] : f \in findings}

(* Without a webhook nothing goes out; with one, what is urgent, and        *)
(* warnings where ALERT_ON_WARN says so.                                   *)
WorthTelling(findings) == SubjectsOf({f \in findings : f[2] \in Loud})

(* MUTANT: what is found is written, and nothing is withdrawn.             *)
OnlyWritten(s, x) == IF x \in SubjectsOf(found[s]) THEN "open" ELSE finding[x]

(* The row of a finding of this operator, after what it found.             *)
Verdict(s, x) == IF x \in SubjectsOf(found[s]) THEN "open"
                 ELSE IF finding[x] = "open" THEN "resolved" ELSE finding[x]

(* ... and reconcileFindings makes the rows say so, in one statement: what *)
(* was found is open, everything else this operator had open is resolved.  *)
Reconcile(s, operator, here, next) ==
  /\ pc[s] = here
  /\ LET mine     == {x \in Subjects : OperatorOf(x) = operator}
         isFound  == SubjectsOf(found[s])
         nowTrue  == {x \in isFound : finding[x] # "open"}
     IN
     /\ finding' = [x \in Subjects |-> IF x \in mine THEN Verdict(s, x) ELSE finding[x]]
     /\ urgent' = (urgent \ mine) \cup {x \in isFound : <<x, "urgent">> \in found[s]}
     /\ earlier' = {yx \in Subjects \X Subjects :
                      /\ finding'[yx[2]] = "open"
                      /\ finding[yx[1]] = "open" /\ finding'[yx[1]] = "open"
                      /\ finding[yx[2]] = "open" => yx \in earlier}
     /\ accepted' = [x \in Subjects |-> IF x \in isFound THEN StandingAcceptance(x) ELSE accepted[x]]
     /\ opened' = [x \in Subjects |-> IF x \in nowTrue THEN opened[x] + 1 ELSE opened[x]]
     /\ due' = [x \in Subjects |-> IF x \in nowTrue \cap WorthTelling(found[s]) THEN due[x] + 1 ELSE due[x]]
     /\ raised' = [raised EXCEPT ![s] = @ \cup {f \in found[s] : NewlyRaised(f[1])}]
  /\ found' = [found EXCEPT ![s] = {}]
  /\ pc' = [pc EXCEPT ![s] = next]
  /\ UNCHANGED <<worldVars, acceptedAt, todo, pending, runVars, tellVars, events, troubles>>

(* An operator that throws leaves its findings as they are.                *)
OperatorFails(s, here, there, next) ==
  /\ pc[s] \in {here, there} /\ troubles < MaxTroubles
  /\ troubles' = troubles + 1
  /\ found' = [found EXCEPT ![s] = {}]
  /\ pc' = [pc EXCEPT ![s] = next]
  /\ UNCHANGED <<worldVars, findingVars, raised, todo, pending, runVars, tellVars, events>>

Operate(s) ==
  \/ LookFor(s, "customer-waiting", "look1", "write1")
  \/ Reconcile(s, "customer-waiting", "write1", "look2")
  \/ OperatorFails(s, "look1", "write1", "look2")
  \/ LookFor(s, "unowned-followup", "look2", "write2")
  \/ Reconcile(s, "unowned-followup", "write2", "tell")
  \/ OperatorFails(s, "look2", "write2", "tell")

(* What is newly raised and worth telling goes out in one post, when the   *)
(* sweep is over; a post that is refused is logged and not repeated.       *)
Tell(s) ==
  /\ pc[s] = "tell"
  /\ LET worth == WorthTelling(raised[s]) IN
     \/ /\ told' = [x \in Subjects |-> IF x \in worth THEN told[x] + 1 ELSE told[x]]
        /\ UNCHANGED <<untold, troubles>>
     \/ /\ worth # {} /\ troubles < MaxTroubles /\ troubles' = troubles + 1
        /\ untold' = [x \in Subjects |-> IF x \in worth THEN untold[x] + 1 ELSE untold[x]]
        /\ UNCHANGED told
  /\ raised' = [raised EXCEPT ![s] = {}]
  /\ pc' = [pc EXCEPT ![s] = "begin"]
  /\ UNCHANGED <<worldVars, findingVars, found, todo, pending, runVars, events>>

-----------------------------------------------------------------------------
(* The automations of the business, in one transaction.                    *)

Open == {x \in Subjects : finding[x] = "open"}

(* What is urgent first, then what has stood longer.                       *)
Precedes(y, x) == IF y \in urgent <=> x \in urgent THEN <<y, x>> \in earlier ELSE y \in urgent

Ahead == {yx \in Open \X Open : Precedes(yx[1], yx[2])}

(* As many of the open findings as the limit allows, and nothing left out  *)
(* that is ahead of what is in.                                            *)
FirstOnes(ahead) ==
  {L \in SUBSET Open : /\ Cardinality(L) = IF Cardinality(Open) < Limit THEN Cardinality(Open) ELSE Limit
                       /\ \A x \in L, y \in Open \ L : <<y, x>> \notin ahead}

(* MUTANT: the order is turned round.                                      *)
LastFindings == FirstOnes({<<yx[2], yx[1]>> : yx \in Ahead})

(* listOpenFindings: those that are accepted or have been acted on keep    *)
(* their place in the list.                                                *)
OpenFindings == FirstOnes(Ahead)

(* Those that the rules which are on are about.                            *)
ToActOn(listed) == {p \in Pairs : rule[p[1]] = "active" /\ p[2] \in listed}

BeginRun(s) ==
  /\ pc[s] = "begin"
  /\ \E listed \in OpenFindings : todo' = [todo EXCEPT ![s] = ToActOn(listed)]
  /\ pc' = [pc EXCEPT ![s] = "run"]
  /\ UNCHANGED <<worldVars, findingVars, found, raised, pending, runVars, tellVars, events, troubles>>

(* The rule and the finding that are next in a run.                        *)
TurnOf(s, p) == pc[s] = "run" /\ p \in todo[s] /\ \A k \in todo[s] : Turn[p] <= Turn[k]
DropPair(s, p) == todo' = [todo EXCEPT ![s] = @ \ {p}]

(* MUTANT: a claim is looked up, and what another run has not committed is *)
(* not seen.                                                               *)
FreeByReading(p) == claim[p] # "done"

(* claimFinding inserts a row, or finds it there; one that another run has *)
(* inserted and not committed makes it wait.                               *)
Free(p) == claim[p] = NoSweep

ClaimFinding(s, p) ==
  /\ TurnOf(s, p) /\ rule[p[1]] # "deleted" /\ Free(p)
  /\ claim' = [claim EXCEPT ![p] = s]
  /\ UNCHANGED <<worldVars, findingVars, sweepVars, reason, doneVars, tellVars, events, troubles>>

(* The finding at hand is claimed, and nothing has been done about it yet. *)
Claimed(s, p) == TurnOf(s, p) /\ claim[p] = s

AlreadyClaimed(s, p) ==
  /\ TurnOf(s, p) /\ rule[p[1]] # "deleted"
  /\ claim[p] = "done"
  /\ DropPair(s, p)
  /\ UNCHANGED <<worldVars, findingVars, pc, found, raised, pending, runVars, tellVars, events, troubles>>

(* Follow-ups this run has written, and those it has given away.           *)
Written(s) == {p \in pending[s] : Action[p[1]] = "create_followup"}
Given(s)   == pending[s] \ Written(s)

(* Bound: there are only so many follow-ups to write.                      *)
Unwritten  == {t \in Tasks : task[t] = "none"}
RoomFor(s) == Cardinality(UNION {Written(k) \X {k} : k \in Sweeps}) < Cardinality(Unwritten)

(* The act, in a savepoint: with its claim it stands when the run commits. *)
(* Giving away updates the follow-up's row, whatever it says by then; one  *)
(* whose row another run holds is waited for.                              *)
Act(s, p) ==
  /\ Claimed(s, p)
  /\ IF Action[p[1]] = "assign_followup"
       THEN Assignee[p[1]] \in present /\ RowFree(p[2])
       ELSE RoomFor(s)
  /\ pending' = [pending EXCEPT ![s] = @ \cup {p}]
  /\ DropPair(s, p)
  /\ UNCHANGED <<worldVars, findingVars, pc, found, raised, runVars, tellVars, events, troubles>>

(* It cannot be done, because the person has gone or the database refuses: *)
(* the claim stands, with the reason; but writing the reason may fail too, *)
(* and that failure is swallowed.                                          *)
CannotAct(s, p) ==
  /\ Claimed(s, p)
  /\ \E isRefused, isSwallowed \in BOOLEAN :
       /\ isRefused \/ (Action[p[1]] = "assign_followup" /\ Assignee[p[1]] \notin present)
       /\ reason' = IF isSwallowed THEN reason ELSE reason \cup {p}
       /\ troubles' = troubles + (IF isRefused THEN 1 ELSE 0) + (IF isSwallowed THEN 1 ELSE 0)
       /\ troubles' <= MaxTroubles
  /\ DropPair(s, p)
  /\ UNCHANGED <<worldVars, findingVars, pc, found, raised, pending, claim, doneVars, tellVars, events>>

CommitRun(s) ==
  /\ pc[s] = "run" /\ todo[s] = {}
  /\ \E new \in SUBSET Unwritten :
       /\ Cardinality(new) = Cardinality(Written(s))
       /\ task' = [t \in Tasks |-> IF t \in new THEN "open" ELSE task[t]]
  /\ owner' = [t \in Tasks |-> IF \E p \in Given(s) : p[2] = t
                                 THEN Assignee[(CHOOSE p \in Given(s) : p[2] = t)[1]] ELSE owner[t]]
  /\ acts' = [p \in Pairs |-> IF p \in pending[s] THEN acts[p] + 1 ELSE acts[p]]
  /\ LET undone == {p \in Pairs \ pending[s] : claim[p] = s} IN
     /\ refused' = [p \in Pairs |-> IF p \in undone \cap reason THEN refused[p] + 1 ELSE refused[p]]
     /\ mute' = [p \in Pairs |-> IF p \in undone \ reason THEN mute[p] + 1 ELSE mute[p]]
  /\ claim' = [p \in Pairs |-> IF claim[p] = s THEN "done" ELSE claim[p]]
  /\ pending' = [pending EXCEPT ![s] = {}]
  /\ pc' = [pc EXCEPT ![s] = "idle"]
  /\ UNCHANGED <<waiting, long, present, rule, findingVars, found, raised, todo, reason, tellVars,
                 events, troubles>>

(* MUTANT: claims are kept by a transaction of their own.                  *)
UndoneButClaims(s) ==
  /\ claim' = [p \in Pairs |-> IF claim[p] = s THEN "done" ELSE claim[p]]
  /\ UNCHANGED reason
  /\ pending' = [pending EXCEPT ![s] = {}]
  /\ todo' = [todo EXCEPT ![s] = {}]
  /\ pc' = [pc EXCEPT ![s] = "idle"]
  /\ found' = [found EXCEPT ![s] = {}]

(* What is not committed is gone, the claims with the acts.                *)
Undone(s) ==
  /\ claim' = [p \in Pairs |-> IF claim[p] = s THEN NoSweep ELSE claim[p]]
  /\ reason' = {p \in reason : claim[p] # s}
  /\ pending' = [pending EXCEPT ![s] = {}]
  /\ todo' = [todo EXCEPT ![s] = {}]
  /\ pc' = [pc EXCEPT ![s] = "idle"]
  /\ found' = [found EXCEPT ![s] = {}]

(* The rule has been deleted since the run began: the claim violates its   *)
(* key, and with it fails the run.                                         *)
RuleGone(s, p) ==
  /\ TurnOf(s, p) /\ rule[p[1]] = "deleted"
  /\ Undone(s)
  /\ UNCHANGED <<worldVars, findingVars, raised, doneVars, tellVars, events, troubles>>

(* The worker dies, or the run's transaction fails.                        *)
Dies(s) ==
  /\ pc[s] # "idle" /\ troubles < MaxTroubles
  /\ troubles' = troubles + 1
  /\ Undone(s)
  /\ untold' = [x \in Subjects |-> IF x \in WorthTelling(raised[s]) THEN untold[x] + 1 ELSE untold[x]]
  /\ raised' = [raised EXCEPT ![s] = {}]
  /\ UNCHANGED <<worldVars, findingVars, doneVars, told, events>>

-----------------------------------------------------------------------------
World ==
  \/ \E c \in Conversations : CustomerWrites(c) \/ WaitsLong(c) \/ Answered(c)
  \/ \E t \in Tasks : \/ \E who \in People \cup {Nobody} : AssignByHand(t, who)
                     \/ \E status \in {"open", "done"} : SetStatus(t, status)
  \/ \E who \in People : Leaves(who)
  \/ \E r \in Rules : SwitchRule(r) \/ DeleteRule(r)
  \/ \E x \in Subjects : Accept(x) \/ TakeBack(x) \/ Lapse(x)

GoesOn(s) ==
  \/ Operate(s) \/ Tell(s) \/ BeginRun(s) \/ CommitRun(s)
  \/ \E p \in Pairs : \/ ClaimFinding(s, p) \/ AlreadyClaimed(s, p) \/ RuleGone(s, p)
                      \/ Act(s, p) \/ CannotAct(s, p)

Next == World \/ \E s \in Sweeps : StartSweep(s) \/ GoesOn(s) \/ Dies(s)

Spec == Init /\ [][Next]_vars

(* A sweep begins every ten minutes, and one that has begun goes on.  That *)
(* one of them does is enough: a run waits only for another run.           *)
Sweeping == \E s \in Sweeps : StartSweep(s) \/ GoesOn(s)

FairSpec == Spec /\ WF_vars(Sweeping)

-----------------------------------------------------------------------------
(* Properties.                                                             *)

TypeOK ==
  /\ waiting \subseteq Conversations /\ long \subseteq waiting
  /\ task \in [Tasks -> {"none", "open", "done"}] /\ owner \in [Tasks -> People \cup {Nobody}]
  /\ present \subseteq People /\ rule \in [Rules -> {"active", "paused", "deleted"}]
  /\ finding \in [Subjects -> {"none", "open", "resolved"}]
  /\ accepted \in [Subjects -> {"no", "yes", "lapsed"}]
  /\ urgent \subseteq Subjects /\ earlier \subseteq Subjects \X Subjects /\ reason \subseteq Pairs
  /\ claim \in [Pairs -> Sweeps \cup {NoSweep, "done"}]
  /\ pc \in [Sweeps -> {"idle", "look1", "write1", "look2", "write2", "tell", "begin", "run"}]
  /\ found \in [Sweeps -> SUBSET (Subjects \X Severities)]
  /\ raised \in [Sweeps -> SUBSET (Subjects \X Severities)]
  /\ todo \in [Sweeps -> SUBSET Pairs] /\ pending \in [Sweeps -> SUBSET Pairs]
  /\ \A s \in Sweeps : /\ pc[s] # "run" => todo[s] = {} /\ \A p \in Pairs : claim[p] # s
                      /\ \A p \in pending[s] : claim[p] = s
  /\ opened \in [Subjects -> Nat] /\ acceptedAt \in [Subjects -> Nat]
  /\ due \in [Subjects -> Nat] /\ told \in [Subjects -> Nat] /\ untold \in [Subjects -> Nat]
  /\ acts \in [Pairs -> Nat] /\ refused \in [Pairs -> Nat] /\ mute \in [Pairs -> Nat]
  /\ events \in 0..MaxEvents /\ troubles \in 0..MaxTroubles

(* However many sweeps overlap, die or are run again, and however often a  *)
(* finding ends and comes back, an automation acts on it once at most      *)
(* (automation-runner.ts, "never acts twice on one finding").              *)
NeverActsTwice == \A p \in Pairs : acts[p] + refused[p] + mute[p] <= 1

(* A claim that stands is a claim of something done, or of something that  *)
(* could not be done: no crash leaves a claim without its act, or an act   *)
(* without its claim.  Its row says why exactly when nothing was done, but *)
(* where writing the reason failed too: such a claim reads like one of     *)
(* something done, and it takes a failure of the database to leave it.     *)
ClaimsAreKept ==
  \A p \in Pairs : rule[p[1]] # "deleted" =>
    /\ claim[p] = "done" <=> acts[p] + refused[p] + mute[p] = 1
    /\ claim[p] = "done" => (p \in reason <=> refused[p] = 1)
    /\ mute[p] = 1 => troubles > 0

(* What a person accepted is the time the finding was true, not the        *)
(* finding for ever (operators.ts, "A DISMISSAL LAPSES EXACTLY WHEN THE    *)
(* AGE RESETS").                                                           *)
AcceptanceIsOfThisTime ==
  \A x \in Subjects : finding[x] = "open" /\ accepted[x] # "no" => acceptedAt[x] = opened[x]

(* Every time a finding becomes true at a severity the outside is told of, *)
(* it is told once, unless the sweep that found it died before it told, or *)
(* its post was refused: two sweeps do not tell twice, a finding that      *)
(* stands is not told again, and nothing else is told (alert-dispatch.ts,  *)
(* "ONLY ON THE TRANSITION", "URGENT ONLY, by default").                   *)
ToldOnce ==
  \A x \in Subjects :
    due[x] = told[x] + untold[x] + Cardinality({s \in Sweeps : x \in WorthTelling(raised[s])})

(* The rows follow the facts: what stays true is found, and what has ended *)
(* is withdrawn, whatever an overlapping sweep wrote from an older look.   *)
FindingsFollowFacts ==
  \A x \in Subjects : /\ <>[]Holds(x) => <>[](finding[x] = "open")
                      /\ <>[]~Holds(x) => <>[](finding[x] # "open")

(* The findings a run would take up before x, or might, are too few to     *)
(* fill its list.                                                          *)
InReach(x) == Cardinality({y \in Open \ {x} : ~Precedes(x, y)}) < Limit

(* A finding that stands within the limit while its automation is on is    *)
(* claimed.  One beyond the limit is not, for as long as those before it   *)
(* stand, even when they have all been acted on.                           *)
StandingFindingsAreActedOn ==
  \A p \in Pairs :
    <>[](rule[p[1]] = "active" /\ p[2] \in Open /\ InReach(p[2])) => <>(claim[p] = "done")

===========================================================================
