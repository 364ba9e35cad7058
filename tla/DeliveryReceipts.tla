------------------------- MODULE DeliveryReceipts -------------------------
(***************************************************************************)
(* What becomes of a message after it has left: Meta reports it sent,      *)
(* delivered, read or failed, and mirrors what a person sent from their    *)
(* own phone (an echo).  Reports come in webhook deliveries, repeated and  *)
(* in any order.  The API puts each delivery on a queue under an id; the   *)
(* worker applies it, report by report, while the transaction that records *)
(* the message may still be open.                                          *)
(***************************************************************************)
EXTENDS Integers, Sequences, FiniteSets

CONSTANTS Messages,     \* what was sent to customers
          Kind,         \* reply | recipient (of a campaign) | test (of a campaign) | echo
          Deliveries,   \* the webhook deliveries Meta makes
          Contents,     \* what they may hold: for each, its reports [of, status], or one echo
          MaxJobs,      \* bound: jobs the queue ever takes
          Attempts,     \* a job's attempts (5 in queue.ts)
          MaxTroubles   \* bound: crashes and failures

Kinds    == {"reply", "recipient", "test", "echo"}
Reported == {"sent", "delivered", "read", "failed"}
Report   == [of : Messages, status : Reported \cup {"echo"}]

None == "none"

ASSUME NoneAssumption == None \notin Deliveries

ASSUME ConstantsAssumption ==
  /\ Kind \in [Messages -> Kinds]
  /\ \A c \in Contents : c \in [Deliveries -> Seq(Report)] /\ \A d \in Deliveries : Len(c[d]) > 0
  /\ MaxJobs \in Nat /\ MaxTroubles \in Nat /\ Attempts \in Nat \ {0}

VARIABLES
  content,   \* what this run's deliveries hold
  stage,     \* accepted (by Meta, not on record) | recorded | lost
  status,    \* what the row, or a test's note in Redis, says of a recorded message
  taken,     \* echoes whose conversation was handed to the person who sent them
  job,       \* the delivery each job is for
  pc,        \* where each job is
  at,        \* the report it is at
  tries,     \* attempts it has used up
  applied,   \* history: statuses applied while the message was on record
  early,     \* history: reports handled before their message was on record
  swallowed, \* history: reports whose handling failed, logged or with their job
  dropped,   \* history: deliveries the queue took for one it had
  overlap,   \* history: tests whose note two jobs had read at once
  published, \* history: live updates sent for an echo
  cut,       \* history: echoes whose handling stopped after they were on record
  troubles

rowVars   == <<stage, status, taken>>
queueVars == <<job, pc, at, tries>>
history   == <<applied, early, swallowed, dropped, overlap, published, cut>>
vars      == <<content, rowVars, queueVars, history, troubles>>

Slots == 1..MaxJobs

(* DELIVERY_STATUS_LADDER, BROADCAST_STATUS_LADDER and a test's RANK: the  *)
(* rungs below 'failed', each with its height.                             *)
Rank(s) == IF s = "read" THEN 3 ELSE IF s = "delivered" THEN 2 ELSE IF s = "sent" THEN 1 ELSE 0

(* What a report means on this kind of row: a recipient has no 'read'.     *)
Mapped(m, s) == IF s = "read" /\ Kind[m] = "recipient" THEN "delivered" ELSE s

(* The status a message is first recorded with: a reply waits for its      *)
(* receipts, a recipient is marked 'sent', an echo has arrived already.    *)
FirstStatus(m) == IF Kind[m] = "reply" THEN "queued" ELSE
                  IF Kind[m] = "recipient" THEN "sent" ELSE
                  IF Kind[m] = "test" THEN "accepted" ELSE "delivered"

(* MUTANT: a failure is taken for one more rung.                           *)
AdvancesAnyway(current, next) == next = "failed" \/ Rank(next) > Rank(current)

(* The WHERE clause of both updates, and testStateAdvances.                *)
Advances(current, next) == /\ current # "failed"
                           /\ next = "failed" \/ Rank(next) > Rank(current)

Init ==
  /\ content \in Contents
  /\ stage = [m \in Messages |-> "accepted"]
  /\ status = [m \in Messages |-> None]
  /\ taken = {}
  /\ job = [j \in Slots |-> None]
  /\ pc = [j \in Slots |-> "free"]
  /\ at = [j \in Slots |-> 1]
  /\ tries = [j \in Slots |-> 0]
  /\ applied = [m \in Messages |-> {}]
  /\ early = {} /\ swallowed = {} /\ dropped = {} /\ overlap = {} /\ cut = {}
  /\ published = [m \in Messages |-> 0]
  /\ troubles = 0

-----------------------------------------------------------------------------
(* The senders.  Meta has taken every message, a person's from their phone *)
(* among them; what is on record of it follows.                            *)

(* What nobody reports is left out of a run.                               *)
AwaitsRecord(m) == /\ stage[m] = "accepted" /\ Kind[m] # "echo"
                   /\ \E d \in Deliveries : \E i \in 1..Len(content[d]) : content[d][i].of = m

(* The sender's transaction commits, or the note is written: from now on   *)
(* an update by the message's id finds it.                                 *)
Commit(m) ==
  /\ AwaitsRecord(m)
  /\ stage' = [stage EXCEPT ![m] = "recorded"]
  /\ status' = [status EXCEPT ![m] = FirstStatus(m)]
  /\ UNCHANGED <<content, taken, queueVars, history, troubles>>

(* It is rolled back, and the message is on record nowhere.                *)
RollBack(m) ==
  /\ AwaitsRecord(m) /\ troubles < MaxTroubles
  /\ troubles' = troubles + 1
  /\ stage' = [stage EXCEPT ![m] = "lost"]
  /\ UNCHANGED <<content, status, taken, queueVars, history>>

-----------------------------------------------------------------------------
(* The webhook and the queue.                                              *)

(* The queue remembers a job by its id while it waits, runs, and for some  *)
(* time after it has ended.                                                *)
Remembered(j) == pc[j] \notin {"free", "forgotten"}

(* The id: the first report's message; an echo has the time, which nothing *)
(* else has.                                                               *)
SameId(d, e) == /\ content[d][1].status # "echo" /\ content[e][1].status # "echo"
                /\ content[d][1].of = content[e][1].of

Duplicate(d) == \E j \in Slots : Remembered(j) /\ SameId(job[j], d)

(* One delivery is posted, for the first time or again.                    *)
Post(d) ==
  /\ IF Duplicate(d)
       THEN dropped' = dropped \cup {d} /\ UNCHANGED <<content, job, pc>>
       ELSE \E j \in Slots : /\ pc[j] = "free" /\ \A k \in Slots : pc[k] = "free" => j <= k
                             /\ job' = [job EXCEPT ![j] = d]
                             /\ pc' = [pc EXCEPT ![j] = "waiting"]
                             /\ UNCHANGED dropped
  /\ UNCHANGED <<content, rowVars, at, tries, applied, early, swallowed, overlap, published, cut, troubles>>

(* removeOnComplete, removeOnFail: enough later jobs have ended.           *)
Forget(j) ==
  /\ pc[j] \in {"done", "failed"}
  /\ pc' = [pc EXCEPT ![j] = "forgotten"]
  /\ UNCHANGED <<content, rowVars, job, at, tries, history, troubles>>

-----------------------------------------------------------------------------
(* The worker.                                                             *)

Item(j) == content[job[j]][at[j]]
Here(j) == Item(j).of
Says(j) == Mapped(Here(j), Item(j).status)

PhaseOf(report) == IF report.status = "echo" THEN "echo" ELSE "update"

GoTo(j, phase) == pc' = [pc EXCEPT ![j] = phase] /\ UNCHANGED at

(* MUTANT: a report that fails takes those after it along.                 *)
GoOnToNothing(j) == GoTo(j, "done")

(* MUTANT: a report already handled is handled again.                      *)
GoOnInPlace(j) == GoTo(j, PhaseOf(Item(j)))

(* On to the next report of the delivery, if there is one.                 *)
GoOn(j) ==
  IF at[j] < Len(content[job[j]])
    THEN /\ at' = [at EXCEPT ![j] = @ + 1]
         /\ pc' = [pc EXCEPT ![j] = PhaseOf(content[job[j]][at[j] + 1])]
    ELSE GoTo(j, "done")

Take(j) ==
  /\ pc[j] = "waiting"
  /\ at' = [at EXCEPT ![j] = 1]
  /\ pc' = [pc EXCEPT ![j] = PhaseOf(content[job[j]][1])]
  /\ UNCHANGED <<content, rowVars, job, tries, history, troubles>>

(* Whose number it is cannot be read: the job throws and is tried again,   *)
(* or has failed.                                                          *)
LookupFails(j) ==
  /\ pc[j] \in {"update", "echo"} /\ at[j] = 1 /\ troubles < MaxTroubles
  /\ troubles' = troubles + 1
  /\ tries' = [tries EXCEPT ![j] = @ + 1]
  /\ IF tries[j] + 1 < Attempts
       THEN GoTo(j, "waiting") /\ UNCHANGED swallowed
       ELSE /\ GoTo(j, "failed")
            /\ swallowed' = swallowed \cup {content[job[j]][i] : i \in 1..Len(content[job[j]])}
  /\ UNCHANGED <<content, rowVars, job, applied, early, dropped, overlap, published, cut>>

(* Both tables are tried, by the message's id, in one transaction.  It     *)
(* moves a row that others can see, if the report is ahead of it.  What    *)
(* has no row may be a test.                                               *)
HasRow(m) == stage[m] = "recorded" /\ Kind[m] # "test"

Update(j) ==
  /\ pc[j] = "update"
  /\ LET m == Here(j) IN
     /\ IF HasRow(m)
          THEN /\ status' = IF Advances(status[m], Says(j)) THEN [status EXCEPT ![m] = Says(j)] ELSE status
               /\ applied' = [applied EXCEPT ![m] = @ \cup {Says(j)}]
          ELSE UNCHANGED <<status, applied>>
     /\ early' = IF Kind[m] # "test" /\ ~HasRow(m) THEN early \cup {Item(j)} ELSE early
     /\ IF Kind[m] = "test" THEN GoTo(j, "note") ELSE GoOn(j)
  /\ UNCHANGED <<content, stage, taken, job, tries, swallowed, dropped, overlap, published, cut,
                 troubles>>

(* recordTestSendReceipt: the note is read, and, if the report is ahead of *)
(* it, written.  Another job may do the same in between.                   *)
ReadNote(j) ==
  /\ pc[j] = "note"
  /\ LET m == Here(j) IN
     IF stage[m] # "recorded"
       THEN GoOn(j) /\ early' = early \cup {Item(j)} /\ UNCHANGED <<applied, overlap>>
       ELSE /\ IF Advances(status[m], Says(j))
                 THEN GoTo(j, "write") /\ UNCHANGED applied
                 ELSE /\ applied' = [applied EXCEPT ![m] = @ \cup {Says(j)}]
                      /\ GoOn(j)
            /\ overlap' = IF \E k \in Slots : pc[k] = "write" /\ Here(k) = m THEN overlap \cup {m} ELSE overlap
            /\ UNCHANGED early
  /\ UNCHANGED <<content, rowVars, job, tries, swallowed, dropped, published, cut, troubles>>

WriteNote(j) ==
  /\ pc[j] = "write"
  /\ status' = [status EXCEPT ![Here(j)] = Says(j)]
  /\ applied' = [applied EXCEPT ![Here(j)] = @ \cup {Says(j)}]
  /\ GoOn(j)
  /\ UNCHANGED <<content, stage, taken, job, tries, early, swallowed, dropped, overlap, published, cut, troubles>>

(* A report that could not be applied is logged, and the next one follows. *)
Swallow(j) ==
  /\ pc[j] \in {"update", "note", "write"} /\ troubles < MaxTroubles
  /\ troubles' = troubles + 1
  /\ swallowed' = swallowed \cup {Item(j)}
  /\ GoOn(j)
  /\ UNCHANGED <<content, rowVars, job, tries, applied, early, dropped, overlap, published, cut>>

-----------------------------------------------------------------------------
(* MUTANT: a known echo is handled all the same.                           *)
RecordEchoAgain(j) ==
  /\ pc[j] = "echo"
  /\ stage' = [stage EXCEPT ![Here(j)] = "recorded"]
  /\ status' = [status EXCEPT ![Here(j)] = FirstStatus(Here(j))]
  /\ GoTo(j, "custody")
  /\ UNCHANGED <<content, taken, job, tries, history, troubles>>

(* An echo: the message is recorded, unless it is known; then the          *)
(* conversation is its sender's; then the open inboxes are told.           *)

RecordEcho(j) ==
  /\ pc[j] = "echo"
  /\ LET m == Here(j) IN
     IF stage[m] = "recorded"
       THEN GoOn(j) /\ UNCHANGED <<content, stage, status>>
       ELSE /\ stage' = [stage EXCEPT ![m] = "recorded"]
            /\ status' = [status EXCEPT ![m] = FirstStatus(m)]
            /\ GoTo(j, "custody")
  /\ UNCHANGED <<content, taken, job, tries, history, troubles>>

TakeCustody(j) ==
  /\ pc[j] = "custody"
  /\ taken' = taken \cup {Here(j)}
  /\ GoTo(j, "publish")
  /\ UNCHANGED <<content, stage, status, job, tries, history, troubles>>

Publish(j) ==
  /\ pc[j] = "publish"
  /\ published' = [published EXCEPT ![Here(j)] = @ + 1]
  /\ GoOn(j)
  /\ UNCHANGED <<content, rowVars, job, tries, applied, early, swallowed, dropped, overlap, cut, troubles>>

(* Whatever fails on the way is logged, and the job goes on.               *)
EchoFails(j) ==
  /\ pc[j] \in {"echo", "custody", "publish"} /\ troubles < MaxTroubles
  /\ troubles' = troubles + 1
  /\ cut' = IF pc[j] = "echo" THEN cut ELSE cut \cup {Here(j)}
  /\ swallowed' = IF pc[j] = "echo" THEN swallowed \cup {Item(j)} ELSE swallowed
  /\ GoOn(j)
  /\ UNCHANGED <<content, rowVars, job, tries, applied, early, dropped, overlap, published>>

-----------------------------------------------------------------------------
Active(j) == pc[j] \in {"update", "note", "write", "echo", "custody", "publish"}

(* The worker dies: what it was at is found stalled, and begins again.     *)
Crash ==
  /\ troubles < MaxTroubles /\ \E j \in Slots : Active(j)
  /\ troubles' = troubles + 1
  /\ pc' = [j \in Slots |-> IF Active(j) THEN "waiting" ELSE pc[j]]
  /\ cut' = cut \cup {m \in Messages : \E j \in Slots : pc[j] \in {"custody", "publish"} /\ Here(j) = m}
  /\ UNCHANGED <<content, rowVars, job, at, tries, applied, early, swallowed, dropped, overlap, published>>

JobNext(j) ==
  \/ Take(j) \/ Update(j) \/ ReadNote(j) \/ WriteNote(j)
  \/ RecordEcho(j) \/ TakeCustody(j) \/ Publish(j)
  \/ LookupFails(j) \/ Swallow(j) \/ EchoFails(j)

Next ==
  \/ \E m \in Messages : Commit(m) \/ RollBack(m)
  \/ \E d \in Deliveries : Post(d)
  \/ \E j \in Slots : JobNext(j) \/ Forget(j)
  \/ Crash

Spec == Init /\ [][Next]_vars

(* The worker runs what is queued.  Nobody has to send, post or commit.    *)
FairSpec == Spec /\ \A j \in Slots : WF_vars(JobNext(j))

-----------------------------------------------------------------------------
(* Properties.                                                             *)

TypeOK ==
  /\ content \in Contents
  /\ stage \in [Messages -> {"accepted", "recorded", "lost"}]
  /\ status \in [Messages -> Reported \cup {None, "queued", "accepted"}]
  /\ \A m \in Messages : Kind[m] = "recipient" => status[m] # "read"
  /\ taken \subseteq Messages
  /\ job \in [Slots -> Deliveries \cup {None}]
  /\ pc \in [Slots -> {"free", "waiting", "update", "note", "write", "echo", "custody", "publish",
                       "done", "failed", "forgotten"}]
  /\ \A j \in Slots : /\ pc[j] # "free" => job[j] \in Deliveries
                      /\ job[j] \in Deliveries => at[j] \in 1..Len(content[job[j]])
                      /\ pc[j] = "free" => at[j] = 1
                      /\ pc[j] \notin {"done", "failed", "forgotten"} => tries[j] < Attempts
  /\ at \in [Slots -> Nat \ {0}]
  /\ tries \in [Slots -> 0..Attempts]
  /\ applied \in [Messages -> SUBSET Reported]
  /\ early \subseteq Report /\ swallowed \subseteq Report /\ dropped \subseteq Deliveries
  /\ overlap \subseteq Messages /\ cut \subseteq Messages
  /\ published \in [Messages -> Nat] /\ troubles \in 0..MaxTroubles

(* What a first status and a set of reports add up to: failed if any said  *)
(* so, else the furthest.                                                  *)
SumOf(first, said, s) ==
  IF "failed" \in said
    THEN s = "failed"
    ELSE s \in said \cup {first} /\ \A x \in said \cup {first} : Rank(x) <= Rank(s)

AddsUp(m) == SumOf(FirstStatus(m), applied[m], status[m])

(* Replies, campaigns and echoes, one row each: receipts reordered,        *)
(* repeated and handled by two jobs at once add up (messages.ts,           *)
(* recordDeliveryStatus; broadcasts.ts, recordBroadcastDelivery).          *)
ReceiptsAddUp == \A m \in Messages : stage[m] = "recorded" /\ Kind[m] # "test" => AddsUp(m)

(* Tests, whose note is read and then written: so do theirs, unless two    *)
(* jobs had the note in hand at once (campaign-test-status.ts).            *)
TestsAddUp == \A m \in Messages \ overlap : stage[m] = "recorded" /\ Kind[m] = "test" => AddsUp(m)

(* No report vanishes with another's failure, a crash or a retry: it was   *)
(* applied, or came too early, or failed by itself or with its whole       *)
(* delivery, or it is still to come.                                       *)
InHand(d, i) == \E j \in Slots : /\ job[j] = d
                                 /\ \/ pc[j] = "waiting"
                                    \/ Active(j) /\ at[j] <= i
EveryReportAccounted ==
  \A d \in Deliveries : (\E j \in Slots : job[j] = d) =>
    \A i \in 1..Len(content[d]) :
      LET report == content[d][i] IN
      \/ report.status = "echo" /\ stage[report.of] = "recorded"
      \/ Mapped(report.of, report.status) \in applied[report.of]
      \/ report \in early \cup swallowed
      \/ InHand(d, i)

(* An echo is shown once, only when its conversation is in its sender's    *)
(* hands; and it is in their hands unless the handling was cut short       *)
(* (processor.ts, processMessageEcho).                                     *)
EchoesAreMirrored ==
  \A m \in Messages : Kind[m] = "echo" =>
    /\ published[m] <= 1
    /\ published[m] = 1 => m \in taken
    /\ stage[m] = "recorded" => \/ m \in taken \cup cut
                                \/ \E j \in Slots : pc[j] = "custody" /\ Here(j) = m

(* Every delivery the queue took is worked off, or has failed as often as  *)
(* it may, whatever fails or crashes on the way (queue.ts, attempts).      *)
EveryJobEnds ==
  \A j \in Slots : pc[j] = "waiting" ~> pc[j] \in {"done", "failed", "forgotten"}

(* What the webhook says of its job ids (whatsapp.ts 108-115): distinct    *)
(* between different receipts.  Only a repeat is dropped.                  *)
OnlyRepeatsAreDropped == \A d \in dropped : \E j \in Slots : job[j] = d
===========================================================================
