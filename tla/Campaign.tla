------------------------------ MODULE Campaign ------------------------------
(***************************************************************************)
(* One WhatsApp campaign, from Send to its last recipient.                 *)
(*                                                                         *)
(* The people a campaign is for are frozen as broadcast_recipients rows    *)
(* and queued as one job each.  A job is one database transaction at READ  *)
(* COMMITTED: it reads the campaign's status, locks its recipient's row,   *)
(* sends, marks the row, then looks at the whole campaign to trip the      *)
(* breaker or to finish it.  It sees what others have COMMITTED and what   *)
(* it wrote itself.  Next to the jobs run the requests that send, resume   *)
(* and stop, the template sync that releases campaigns waiting for their   *)
(* message to be approved, and the delivery receipts.                      *)
(***************************************************************************)
EXTENDS Integers, FiniteSets

CONSTANTS Recipients,
          MaxBatches,    \* bound: how often people are put on the queue
          MaxSends,      \* bound: how often Send is pressed
          Attempts,      \* attempts of a job (broadcast-queue.ts)
          Concurrency,   \* jobs a worker runs at once (worker.ts)
          MinAttempted,  \* tries before the breaker may trip (10 in the code)
          Origins,       \* where the campaign starts: see Init
          MaxCrashes,    \* bound: workers that die, at a job or at a release
          MaxFaults,     \* bound: statements of jobs the database refuses
          MaxOptOuts     \* bound: people who opt out

ASSUME ConstantsAssumption ==
  /\ MaxBatches \in Nat /\ MaxSends \in Nat /\ MaxCrashes \in Nat /\ MaxFaults \in Nat
  /\ MaxOptOuts \in Nat
  /\ Attempts \in Nat \ {0} /\ Concurrency \in Nat \ {0} /\ MinAttempted \in Nat \ {0}
  /\ Origins \subseteq {"absent", "draft", "scheduled"}

Jobs  == Recipients \X (1..MaxBatches)
Of(j) == j[1]                          \* the recipient a job is for

VARIABLES
  origin,    \* how the campaign came to be: see Init
  status,    \* the campaign's committed status
  rcpt,      \* each recipient's committed status ("absent": no row yet)
  wamid,     \* recipients whose row holds Meta's id of their message
  optedOut,  \* people who have asked not to be messaged
  job,       \* each job in the queue
  made,      \* attemptsMade of each job
  pc,        \* the step a running job is at
  mark,      \* what a running job has written on its recipient's row
  fin,       \* what a running job has written on the campaign's row
  verdict,   \* how the campaign ended, by the job's first look at it
  req,       \* the request whose transaction is open
  batch,     \* queueings so far
  todo,      \* jobs the template sync has yet to put on the queue
  receipt,   \* the breaker check a failed receipt has started
  presses, crashes, faults,
  sends,     \* history: messages that left for each person
  lost,      \* history: of those, the ones the database forgot
  unheard,   \* history: people whose message left, and read as refused
  lateSends, \* history: messages that left after the person opted out
  overrun,   \* history: messages that left while it read 'stopped', since the last Stop
  cut        \* history: whether a release was cut short

campaignVars == <<origin, status, rcpt, wamid, optedOut>>
jobVars      == <<job, made, pc, mark, fin, verdict>>
controlVars  == <<req, batch, todo, receipt, presses>>
faultVars    == <<crashes, faults>>
historyVars  == <<sends, lost, unheard, lateSends, overrun, cut>>
vars == <<campaignVars, jobVars, controlVars, faultVars, historyVars>>

Status     == {"absent", "draft", "scheduled", "sending", "paused", "stopped", "completed", "failed"}
RcptStatus == {"absent", "pending", "sent", "delivered", "failed"}
Step       == {"idle", "lock", "send", "outcome", "breaker", "pausing", "finish", "closing", "commit"}
NoRequest  == [kind |-> "none", rows |-> {}, whole |-> TRUE]

TypeOK ==
  /\ origin   \in Origins
  /\ status   \in Status
  /\ rcpt     \in [Recipients -> RcptStatus]
  /\ wamid    \subseteq Recipients
  /\ optedOut \subseteq Recipients
  /\ job      \in [Jobs -> {"none", "waiting", "active", "done", "dead"}]
  /\ made     \in [Jobs -> 0..Attempts]
  /\ pc       \in [Jobs -> Step]
  /\ mark     \in [Jobs -> {"none", "sent", "failed"}]
  /\ fin      \in [Jobs -> {"none", "paused", "completed", "failed"}]
  /\ verdict  \in [Jobs -> {"open", "completed", "failed"}]
  /\ req      \in [kind : {"none", "send", "check"}, rows : SUBSET Recipients, whole : BOOLEAN]
  /\ batch    \in 0..MaxBatches
  /\ todo     \subseteq Jobs
  /\ receipt  \in {"none", "check", "pausing"}
  /\ presses  \in 0..MaxSends
  /\ crashes  \in 0..MaxCrashes
  /\ faults   \in 0..MaxFaults
  /\ sends    \in [Recipients -> Nat]
  /\ lost     \in [Recipients -> Nat]
  /\ unheard  \subseteq Recipients
  /\ lateSends \in [Recipients -> Nat]
  /\ overrun  \in Nat
  /\ cut      \in BOOLEAN

(* A campaign starts in one of three places: not there yet (an admin's or  *)
(* a staff member's Send creates it), a committed draft (a business        *)
(* broadcast), or waiting for its message to be approved.                  *)
Init ==
  /\ origin \in Origins
  /\ status = origin
  /\ rcpt = [r \in Recipients |-> IF status = "scheduled" THEN "pending" ELSE "absent"]
  /\ wamid = {} /\ optedOut = {}
  /\ job     = [j \in Jobs |-> "none"]
  /\ made    = [j \in Jobs |-> 0]
  /\ pc      = [j \in Jobs |-> "idle"]
  /\ mark    = [j \in Jobs |-> "none"]
  /\ fin     = [j \in Jobs |-> "none"]
  /\ verdict = [j \in Jobs |-> "open"]
  /\ req = NoRequest
  /\ batch = 0 /\ todo = {} /\ receipt = "none" /\ presses = 0
  /\ crashes = 0 /\ faults = 0
  /\ sends     = [r \in Recipients |-> 0]
  /\ lost      = [r \in Recipients |-> 0]
  /\ unheard = {}
  /\ lateSends = [r \in Recipients |-> 0]
  /\ overrun = 0 /\ cut = FALSE

-----------------------------------------------------------------------------
(* Locks and what a transaction sees.                                      *)

(* The campaign's row is locked by whoever has written it and not ended.   *)
CampaignFree == req.kind = "none" /\ \A j \in Jobs : fin[j] = "none"

(* select ... for update of r: the row is the job's until it ends.         *)
Holding(j)    == pc[j] \notin {"idle", "lock"}
RowFree(r)    == \A j \in Jobs : Of(j) = r => ~Holding(j)

(* The recipients as job j sees them: committed rows and its own mark.     *)
View(j) == [r \in Recipients |-> IF r = Of(j) /\ mark[j] # "none" THEN mark[j] ELSE rcpt[r]]

Pending(rows)  == {r \in Recipients : rows[r] = "pending"}
SentOf(rows)   == {r \in Recipients : rows[r] \in {"sent", "delivered"}}
FailedOf(rows) == {r \in Recipients : rows[r] = "failed"}

(* shouldTrip, on what broadcastOutcome counts.                            *)
ShouldTrip(rows) ==
  LET attempted == Cardinality(SentOf(rows)) + Cardinality(FailedOf(rows))
  IN  attempted >= MinAttempted /\ 2 * Cardinality(FailedOf(rows)) > attempted

Trips(rows) == Pending(rows) # {} /\ ShouldTrip(rows)

(* MUTANT: the count of those still pending is forgotten. *)
VerdictOfTheTried(rows) ==
  IF SentOf(rows) = {} /\ FailedOf(rows) = {} THEN "open"
  ELSE IF SentOf(rows) = {} THEN "failed" ELSE "completed"

(* What finishing the campaign would write, "open" when people are left.   *)
Verdict(rows) ==
  IF Pending(rows) # {} THEN "open"
  ELSE IF SentOf(rows) = {} /\ FailedOf(rows) # {} THEN "failed" ELSE "completed"

(* Put people on the queue: one new job each.                              *)
Enqueue(people) ==
  /\ batch < MaxBatches
  /\ batch' = batch + 1
  /\ job' = [j \in Jobs |-> IF j[1] \in people /\ j[2] = batch + 1 THEN "waiting" ELSE job[j]]

-----------------------------------------------------------------------------
(* The requests.  A request is one transaction, and what it queues is on   *)
(* the queue before it commits.                                            *)

(* Send: the audience's rows are inserted, the status set, the jobs        *)
(* queued.  The business route asks nothing of the status it finds, and    *)
(* inserts nothing for people who already have a row.  The queue may       *)
(* refuse part of the jobs, and then the request throws.                   *)
BeginSend ==
  /\ CampaignFree
  /\ origin = "draft" \/ (status = "absent" /\ presses = 0)
  /\ presses < MaxSends
  /\ presses' = presses + 1
  /\ \E audience \in SUBSET Recipients :
       LET new == {r \in audience : rcpt[r] = "absent"} IN
       /\ audience # {}
       /\ \E queued \in SUBSET new :
            /\ Enqueue(queued)
            /\ req' = [kind |-> "send", rows |-> new, whole |-> queued = new]
  /\ UNCHANGED <<campaignVars, made, pc, mark, fin, verdict, todo, receipt, faultVars, historyVars>>

(* "Check again" releases a waiting campaign inside its request.           *)
BeginCheck ==
  /\ CampaignFree
  /\ status = "scheduled"
  /\ \E queued \in SUBSET Pending(rcpt) :
       /\ Enqueue(queued)
       /\ req' = [kind |-> "check", rows |-> {}, whole |-> queued = Pending(rcpt)]
  /\ UNCHANGED <<campaignVars, made, pc, mark, fin, verdict, todo, receipt, presses, faultVars, historyVars>>

(* A check the queue half-refused has set the status back before it ends.  *)
CommitRequest ==
  /\ req.kind # "none"
  /\ req.kind = "send" => req.whole
  /\ rcpt'   = [r \in Recipients |-> IF r \in req.rows THEN "pending" ELSE rcpt[r]]
  /\ status' = IF req.whole THEN "sending" ELSE status
  /\ req' = NoRequest
  /\ UNCHANGED <<origin, wamid, optedOut, jobVars, batch, todo, receipt, presses, faultVars, historyVars>>

(* The rows of a Send that is rolled back never were, so nothing its jobs  *)
(* still do has an effect.                                                 *)
RollBackRequest ==
  /\ req.kind # "none"
  /\ req' = NoRequest
  /\ LET void == {j \in Jobs : req.kind = "send" /\ j[2] = batch /\ job[j] \in {"waiting", "active"}}
     IN  /\ job' = [j \in Jobs |-> IF j \in void THEN "done" ELSE job[j]]
         /\ pc'  = [j \in Jobs |-> IF j \in void THEN "idle" ELSE pc[j]]
  /\ UNCHANGED <<campaignVars, made, mark, fin, verdict, batch, todo, receipt, presses, faultVars, historyVars>>

(* Resume: the jobs wait AFTER_THE_REQUEST_MS, so the request has ended    *)
(* before one starts; it may have ended badly with its jobs queued.        *)
Resume ==
  /\ CampaignFree
  /\ status = "paused"
  /\ Enqueue(Pending(rcpt))
  /\ status' \in {"sending", "paused"}
  /\ UNCHANGED <<origin, rcpt, wamid, optedOut, made, pc, mark, fin, verdict, req, todo, receipt, presses, faultVars, historyVars>>

Stop ==
  /\ CampaignFree
  /\ status \in {"paused", "sending", "scheduled", "draft"}
  /\ status' = "stopped"
  /\ overrun' = 0
  /\ UNCHANGED <<origin, rcpt, wamid, optedOut, jobVars, controlVars, faultVars, sends, lost, unheard, lateSends, cut>>

(* A person writes STOP. *)
OptOut(r) ==
  /\ Cardinality(optedOut) < MaxOptOuts
  /\ r \notin optedOut
  /\ optedOut' = optedOut \cup {r}
  /\ UNCHANGED <<origin, status, rcpt, wamid, jobVars, controlVars, faultVars, historyVars>>

-----------------------------------------------------------------------------
(* The template sync, in the worker: no transaction spans a release, so    *)
(* the claim is committed before anybody is on the queue.                  *)

SyncClaim ==
  /\ CampaignFree
  /\ status = "scheduled"
  /\ todo = {}
  /\ batch < MaxBatches
  /\ batch' = batch + 1
  /\ todo' = Pending(rcpt) \X {batch + 1}
  /\ status' = "sending"
  /\ UNCHANGED <<origin, rcpt, wamid, optedOut, jobVars, req, receipt, presses, faultVars, historyVars>>

SyncQueue(j) ==
  /\ j \in todo
  /\ todo' = todo \ {j}
  /\ job' = [job EXCEPT ![j] = "waiting"]
  /\ UNCHANGED <<campaignVars, made, pc, mark, fin, verdict, req, batch, receipt, presses, faultVars, historyVars>>

(* The queue refuses: the campaign goes back to waiting, if it may.        *)
SyncRefused ==
  /\ todo # {}
  /\ CampaignFree
  /\ todo' = {}
  /\ status' = IF status = "sending" THEN "scheduled" ELSE status
  /\ UNCHANGED <<origin, rcpt, wamid, optedOut, jobVars, req, batch, receipt, presses, faultVars, historyVars>>

SyncDies ==
  /\ todo # {}
  /\ crashes < MaxCrashes
  /\ crashes' = crashes + 1
  /\ todo' = {}
  /\ cut' = TRUE
  /\ UNCHANGED <<campaignVars, jobVars, req, batch, receipt, presses, faults, sends, lost, unheard, lateSends, overrun>>

(* WhatsApp turns the message down. *)
NeverApproved ==
  /\ CampaignFree
  /\ status = "scheduled"
  /\ todo = {}
  /\ status' = "failed"
  /\ UNCHANGED <<origin, rcpt, wamid, optedOut, jobVars, controlVars, faultVars, historyVars>>

-----------------------------------------------------------------------------
(* The send job.                                                           *)

Return(j) == /\ job' = [job EXCEPT ![j] = "done"]
             /\ pc'  = [pc EXCEPT ![j] = "idle"]

(* The processor throws: the transaction is rolled back and the attempt    *)
(* counted; the queue tries again while attempts are left.                 *)
Throw(j) == /\ made' = [made EXCEPT ![j] = @ + 1]
            /\ job'  = [job EXCEPT ![j] = IF made[j] + 1 < Attempts THEN "waiting" ELSE "dead"]
            /\ pc'   = [pc EXCEPT ![j] = "idle"]

(* Exponential backoff puts a job's last attempt after the end of the      *)
(* request that queued it.                                                 *)
BackedOff(j) == made[j] = Attempts - 1 => ~(req.kind # "none" /\ j[2] = batch)

(* MUTANT: a campaign that is not there yet ends the job. *)
StartWithoutRetry(j) ==
  /\ job[j] = "waiting"
  /\ Cardinality({k \in Jobs : job[k] = "active"}) < Concurrency
  /\ BackedOff(j)
  /\ \/ /\ status \in {"paused", "stopped", "absent", "scheduled"}
        /\ Return(j)
        /\ UNCHANGED made
     \/ /\ status \in {"draft", "sending", "completed", "failed"}
        /\ job' = [job EXCEPT ![j] = "active"]
        /\ pc'  = [pc EXCEPT ![j] = "lock"]
        /\ UNCHANGED made
  /\ UNCHANGED <<campaignVars, mark, fin, verdict, controlVars, faultVars, historyVars>>

(* MUTANT: only a pause is honoured. *)
StartUnlessPaused(j) ==
  /\ job[j] = "waiting"
  /\ Cardinality({k \in Jobs : job[k] = "active"}) < Concurrency
  /\ BackedOff(j)
  /\ \/ /\ status = "paused"
        /\ Return(j)
        /\ UNCHANGED made
     \/ /\ status \in {"absent", "scheduled"}
        /\ Throw(j)
     \/ /\ status \in {"draft", "sending", "stopped", "completed", "failed"}
        /\ job' = [job EXCEPT ![j] = "active"]
        /\ pc'  = [pc EXCEPT ![j] = "lock"]
        /\ UNCHANGED made
  /\ UNCHANGED <<campaignVars, mark, fin, verdict, controlVars, faultVars, historyVars>>

(* A worker takes the job and reads the campaign's status. *)
Start(j) ==
  /\ job[j] = "waiting"
  /\ Cardinality({k \in Jobs : job[k] = "active"}) < Concurrency
  /\ BackedOff(j)
  /\ \/ /\ status \in {"paused", "stopped"}
        /\ Return(j)
        /\ UNCHANGED made
     \/ /\ status \in {"absent", "scheduled"}
        /\ Throw(j)
     \/ /\ status \in {"draft", "sending", "completed", "failed"}
        /\ job' = [job EXCEPT ![j] = "active"]
        /\ pc'  = [pc EXCEPT ![j] = "lock"]
        /\ UNCHANGED made
  /\ UNCHANGED <<campaignVars, mark, fin, verdict, controlVars, faultVars, historyVars>>

(* MUTANT: the opt-out is the audience's business. *)
LockWithoutAsking(j) ==
  LET r == Of(j) IN
  /\ pc[j] = "lock"
  /\ RowFree(r)
  /\ \/ /\ rcpt[r] # "pending"
        /\ Return(j)
     \/ /\ rcpt[r] = "pending"
        /\ pc' = [pc EXCEPT ![j] = "send"]
        /\ UNCHANGED job
  /\ UNCHANGED <<campaignVars, made, mark, fin, verdict, controlVars, faultVars, historyVars>>

(* recipientForSend: waits for the row, then asks whether the person is    *)
(* still to be tried and whether they have opted out.                      *)
LockRecipient(j) ==
  LET r == Of(j) IN
  /\ pc[j] = "lock"
  /\ RowFree(r)
  /\ \/ /\ rcpt[r] # "pending"
        /\ Return(j)
        /\ UNCHANGED mark
     \/ /\ rcpt[r] = "pending"
        /\ r \in optedOut
        /\ mark' = [mark EXCEPT ![j] = "failed"]
        /\ pc'   = [pc EXCEPT ![j] = "outcome"]
        /\ UNCHANGED job
     \/ /\ rcpt[r] = "pending"
        /\ r \notin optedOut
        /\ pc' = [pc EXCEPT ![j] = "send"]
        /\ UNCHANGED <<job, mark>>
  /\ UNCHANGED <<campaignVars, made, fin, verdict, controlVars, faultVars, historyVars>>

(* A message leaves for r. *)
Leaves(r) ==
  /\ sends'     = [sends EXCEPT ![r] = @ + 1]
  /\ lateSends' = [lateSends EXCEPT ![r] = IF r \in optedOut THEN @ + 1 ELSE @]
  /\ overrun'   = IF status = "stopped" THEN overrun + 1 ELSE overrun

(* Meta accepts, and the row is marked sent in a savepoint of its own.     *)
SendAccepted(j) ==
  /\ pc[j] = "send"
  /\ Leaves(Of(j))
  /\ mark' = [mark EXCEPT ![j] = "sent"]
  /\ pc'   = [pc EXCEPT ![j] = "outcome"]
  /\ UNCHANGED <<campaignVars, job, made, fin, verdict, controlVars, faultVars, lost, unheard, cut>>

(* MUTANT: the mark is part of the send, and its failure is retried. *)
SendRetriesTheMark(j) ==
  /\ pc[j] = "send"
  /\ faults < MaxFaults
  /\ faults' = faults + 1
  /\ Leaves(Of(j))
  /\ Throw(j)
  /\ UNCHANGED <<campaignVars, mark, fin, verdict, controlVars, crashes, lost, unheard, cut>>

(* Meta accepts, and the row cannot be marked: the job returns, the row    *)
(* stays pending.                                                          *)
SendUnmarked(j) ==
  /\ pc[j] = "send"
  /\ faults < MaxFaults
  /\ faults' = faults + 1
  /\ Leaves(Of(j))
  /\ lost' = [lost EXCEPT ![Of(j)] = @ + 1]
  /\ Return(j)
  /\ UNCHANGED <<campaignVars, made, mark, fin, verdict, controlVars, crashes, unheard, cut>>

(* Meta accepts and the answer is lost: the call rejects without a status, *)
(* which is not taken for an outage, and the row is marked failed.         *)
SendUnanswered(j) ==
  /\ pc[j] = "send"
  /\ Leaves(Of(j))
  /\ unheard' = unheard \cup {Of(j)}
  /\ mark' = [mark EXCEPT ![j] = "failed"]
  /\ pc'   = [pc EXCEPT ![j] = "outcome"]
  /\ UNCHANGED <<campaignVars, job, made, fin, verdict, controlVars, faultVars, lost, cut>>

(* Meta refuses.  A passing refusal (a rate limit, an outage) is rethrown  *)
(* only if the error carries a status, and the client's errors carry none: *)
(* the row is marked failed whatever the reason and the attempts left.     *)
SendRefused(j) ==
  /\ pc[j] = "send"
  /\ mark' = [mark EXCEPT ![j] = "failed"]
  /\ pc'   = [pc EXCEPT ![j] = "outcome"]
  /\ UNCHANGED <<campaignVars, job, made, fin, verdict, controlVars, faultVars, sends, lost, unheard, lateSends, overrun, cut>>

(* A statement before the send is refused, or, after a refusal or a lost   *)
(* answer, the 'failed' mark: the job throws, and what it did is forgotten.*)
JobFails(j) ==
  /\ pc[j] \in {"lock", "send"}
  /\ faults < MaxFaults
  /\ faults' = faults + 1
  /\ \/ UNCHANGED <<sends, lost, lateSends, overrun>>
     \/ /\ pc[j] = "send"
        /\ Leaves(Of(j))
        /\ lost' = [lost EXCEPT ![Of(j)] = @ + 1]
  /\ Throw(j)
  /\ UNCHANGED <<campaignVars, mark, fin, verdict, controlVars, crashes, unheard, cut>>

(* broadcastOutcome, for the finish. *)
ReadOutcome(j) ==
  /\ pc[j] = "outcome"
  /\ verdict' = [verdict EXCEPT ![j] = Verdict(View(j))]
  /\ pc' = [pc EXCEPT ![j] = "breaker"]
  /\ UNCHANGED <<campaignVars, job, made, mark, fin, controlVars, faultVars, historyVars>>

(* pauseBroadcastIfFailing counts again; its update comes after.           *)
Breaker(j) ==
  /\ pc[j] = "breaker"
  /\ pc' = [pc EXCEPT ![j] = IF Trips(View(j)) THEN "pausing" ELSE "finish"]
  /\ UNCHANGED <<campaignVars, job, made, mark, fin, verdict, controlVars, faultVars, historyVars>>

(* update ... set status = 'paused' where status = 'sending': waits for    *)
(* the row when it matches and is locked.                                  *)
Pausing(j) ==
  /\ pc[j] = "pausing"
  /\ \/ /\ status = "sending"
        /\ CampaignFree
        /\ fin' = [fin EXCEPT ![j] = "paused"]
        /\ pc'  = [pc EXCEPT ![j] = "commit"]
     \/ /\ status # "sending"
        /\ pc' = [pc EXCEPT ![j] = "finish"]
        /\ UNCHANGED fin
  /\ UNCHANGED <<campaignVars, job, made, mark, verdict, controlVars, faultVars, historyVars>>

(* outcome.done, and the status read once more. *)
Finish(j) ==
  /\ pc[j] = "finish"
  /\ pc' = [pc EXCEPT ![j] = IF verdict[j] # "open" /\ status = "sending" THEN "closing" ELSE "commit"]
  /\ UNCHANGED <<campaignVars, job, made, mark, fin, verdict, controlVars, faultVars, historyVars>>

(* updateBroadcastStatus: whatever the status is by the time the row is    *)
(* free.                                                                   *)
Closing(j) ==
  /\ pc[j] = "closing"
  /\ CampaignFree
  /\ fin' = [fin EXCEPT ![j] = verdict[j]]
  /\ pc'  = [pc EXCEPT ![j] = "commit"]
  /\ UNCHANGED <<campaignVars, job, made, mark, verdict, controlVars, faultVars, historyVars>>

(* The progress fails: its savepoint is rolled back and the job goes on.   *)
ProgressFails(j) ==
  /\ pc[j] \in {"outcome", "breaker", "pausing", "finish", "closing"}
  /\ faults < MaxFaults
  /\ faults' = faults + 1
  /\ pc' = [pc EXCEPT ![j] = "commit"]
  /\ UNCHANGED <<campaignVars, job, made, mark, fin, verdict, controlVars, crashes, historyVars>>

(* What the transaction wrote is forgotten by the job once it has ended.   *)
Forget(j) == /\ mark'    = [mark EXCEPT ![j] = "none"]
             /\ fin'     = [fin EXCEPT ![j] = "none"]
             /\ verdict' = [verdict EXCEPT ![j] = "open"]

Commit(j) ==
  /\ pc[j] = "commit"
  /\ rcpt'   = [rcpt EXCEPT ![Of(j)] = mark[j]]
  /\ wamid'  = IF mark[j] = "sent" THEN wamid \cup {Of(j)} ELSE wamid
  /\ status' = IF fin[j] = "none" THEN status ELSE fin[j]
  /\ Return(j)
  /\ Forget(j)
  /\ UNCHANGED <<origin, optedOut, made, controlVars, faultVars, historyVars>>

(* Job j's mark, not yet committed, stands for a message that left.        *)
Stands(j) == mark[j] = "sent" \/ (mark[j] = "failed" /\ Of(j) \in unheard)

(* The worker dies with the transaction open: the queue finds the job      *)
(* stalled and runs it again.                                              *)
Crash(j) ==
  /\ pc[j] # "idle"
  /\ crashes < MaxCrashes
  /\ crashes' = crashes + 1
  /\ lost' = [lost EXCEPT ![Of(j)] = IF Stands(j) THEN @ + 1 ELSE @]
  /\ unheard' = IF Stands(j) THEN unheard \ {Of(j)} ELSE unheard
  /\ job'  = [job EXCEPT ![j] = "waiting"]
  /\ pc'   = [pc EXCEPT ![j] = "idle"]
  /\ Forget(j)
  /\ UNCHANGED <<campaignVars, made, controlVars, faults, sends, lateSends, overrun, cut>>

-----------------------------------------------------------------------------
(* Delivery receipts, each applied in a transaction of its own.            *)

(* recordBroadcastDelivery: forward along pending, sent, delivered;        *)
(* 'failed' from anywhere and for good.                                    *)
Advances(old, new) == \/ new = "failed" /\ old # "failed"
                      \/ new = "delivered" /\ old \in {"pending", "sent"}

Receipt(r, new) ==
  /\ r \in wamid
  /\ RowFree(r)
  /\ Advances(rcpt[r], new)
  /\ receipt = "none"
  /\ rcpt' = [rcpt EXCEPT ![r] = new]
  /\ receipt' = IF new = "failed" THEN "check" ELSE "none"
  /\ UNCHANGED <<origin, status, wamid, optedOut, jobVars, req, batch, todo, presses, faultVars, historyVars>>

(* pauseBroadcastIfFailingByMessage, after a failed receipt.               *)
ReceiptCheck ==
  /\ receipt = "check"
  /\ receipt' = IF Trips(rcpt) THEN "pausing" ELSE "none"
  /\ UNCHANGED <<campaignVars, jobVars, req, batch, todo, presses, faultVars, historyVars>>

ReceiptPausing ==
  /\ receipt = "pausing"
  /\ status = "sending" => CampaignFree
  /\ status' = IF status = "sending" THEN "paused" ELSE status
  /\ receipt' = "none"
  /\ UNCHANGED <<origin, rcpt, wamid, optedOut, jobVars, req, batch, todo, presses, faultVars, historyVars>>

-----------------------------------------------------------------------------
JobStep(j) ==
  \/ Start(j) \/ LockRecipient(j)
  \/ SendAccepted(j) \/ SendUnmarked(j) \/ SendUnanswered(j) \/ SendRefused(j)
  \/ JobFails(j)
  \/ ReadOutcome(j) \/ Breaker(j) \/ Pausing(j) \/ Finish(j) \/ Closing(j) \/ ProgressFails(j)
  \/ Commit(j)

Requests == BeginSend \/ BeginCheck \/ CommitRequest \/ RollBackRequest \/ Resume \/ Stop
Sync     == SyncClaim \/ SyncRefused \/ SyncDies \/ NeverApproved \/ \E j \in Jobs : SyncQueue(j)
Receipts == ReceiptCheck \/ ReceiptPausing \/ \E r \in Recipients, new \in {"delivered", "failed"} : Receipt(r, new)

Next == \/ Requests
        \/ Sync
        \/ Receipts
        \/ \E r \in Recipients : OptOut(r)
        \/ \E j \in Jobs : JobStep(j) \/ Crash(j)

Spec == Init /\ [][Next]_vars

(* The workers run what is queued, a request ends, and a release the sync  *)
(* began goes on.  Nobody is obliged to press anything.                    *)
Fairness ==
  /\ \A j \in Jobs : WF_vars(JobStep(j))
  /\ WF_vars(CommitRequest \/ RollBackRequest)
  /\ WF_vars(SyncRefused \/ \E j \in Jobs : SyncQueue(j))
  /\ WF_vars(ReceiptCheck \/ ReceiptPausing)

FairSpec == Spec /\ Fairness

-----------------------------------------------------------------------------
(* A person is messaged again only when the database lost the first        *)
(* message: its worker died, or its row could not be marked.  Retries,     *)
(* half-refused releases, resumes, double jobs and lost answers never do.  *)
TwiceOnlyIfLost == \A r \in Recipients : sends[r] <= lost[r] + 1

(* A campaign that was sent once and reads 'completed' has nobody left to  *)
(* try, whichever of its jobs decided so and on what they saw.  (A second  *)
(* Send of a draft may add people after a job has looked.)                 *)
CompletedIsSettled == status = "completed" /\ presses <= 1 => Pending(rcpt) = {}

(* A Stop lets at most the messages already in a worker's hands go out.    *)
StopOverrunBounded == overrun <= Concurrency

(* After a person's STOP at most one message, already on its way, leaves   *)
(* for them -- whatever is retried, resumed or released later.             *)
OneAfterOptOut == \A r \in Recipients : lateSends[r] <= 1

(* What is known of a person never gets less: a decided recipient is not   *)
(* tried again, a failure is final, 'delivered' does not go back to 'sent'.*)
Rank(s) == CASE s = "absent" -> 0 [] s = "pending" -> 1 [] s = "sent" -> 2
             [] s = "delivered" -> 3 [] s = "failed" -> 4
OnlyForward == [][\A r \in Recipients : Rank(rcpt'[r]) >= Rank(rcpt[r])]_vars

(* Nobody in a campaign that is sending is forgotten: they are decided, or *)
(* the campaign stops sending -- unless the database lost their message or *)
(* a release was cut short, and but for drafts, whose jobs may start before *)
(* the recipients are there to be read.                                    *)
EveryoneDecided ==
  \A r \in Recipients :
    (origin # "draft" /\ status = "sending" /\ rcpt[r] = "pending") ~>
      (rcpt[r] # "pending" \/ status # "sending" \/ lost[r] > 0 \/ cut)

(* A recipient as the promise of OnceOnly sees it: Meta's id on the row is *)
(* the decision that the message went, whatever a receipt says later.      *)
Seen(r) == IF r \in wamid THEN "sent" ELSE IF rcpt[r] = "failed" THEN "failed" ELSE "open"

Once == INSTANCE OnceOnly WITH Messages  <- Recipients,
                               MayForget <- MaxCrashes > 0,
                               left      <- [r \in Recipients |-> sends[r] - lost[r]],
                               decision  <- [r \in Recipients |-> Seen(r)]

(* A campaign keeps the promise of OnceOnly for each of its people: of the *)
(* messages the database did not lose one at most, and a row that says     *)
(* truly whether it went, but for one marked failed because Meta's answer  *)
(* was lost: it went, and is not sent again.                               *)
ImplementsOnceOnly == Once!Spec

(* "Finishing never un-pauses", a race between the last jobs included      *)
(* (broadcast-processor.ts:194-196).                                       *)
FinishNeverUnpauses == [][status = "paused" => status' \notin {"completed", "failed"}]_vars

=============================================================================
