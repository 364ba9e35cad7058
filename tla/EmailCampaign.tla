--------------------------- MODULE EmailCampaign ---------------------------
(***************************************************************************)
(* Email campaigns that leave from one mailbox.                            *)
(*                                                                         *)
(* A campaign is spread over days so that the mailbox keeps to its daily   *)
(* cap: everybody gets a row with the day it may leave on and one delayed  *)
(* job.  One worker runs the jobs of every campaign, one at a time, and    *)
(* each of its steps is a transaction of its own.  Beside it run the       *)
(* requests that send, resume and stop, people who unsubscribe, and the    *)
(* mailbox's sync, which reads bounces: one transaction for all the mail   *)
(* it stores, in which the breaker may pause the campaign a bounce is of.  *)
(*                                                                         *)
(* A day of the model is 24 hours.                                         *)
(***************************************************************************)
EXTENDS Integers, FiniteSets

CONSTANTS Campaigns, Contacts, NoJob, NoRow,
          Address,       \* Contacts -> the address on each contact's row, a number: they are ordered
          ServedBy,      \* Campaigns -> the contacts its sender serves: a book, or a business
          Cap,           \* emails a day (EMAIL_CAMPAIGN_DAILY_CAP)
          Attempts,      \* attempts of a job (email-broadcast-queue.ts)
          MinAttempted,  \* tries before the breaker may trip (10 in the code)
          MaxDay,        \* bound: the last day looked at
          MaxEvents      \* bound: campaigns resumed or stopped, people who unsubscribe,
                         \* bounces read, workers that die, database failures, answers lost

Rows == Campaigns \X Contacts
Jobs == Rows \X (0..MaxEvents)   \* email-<row>, then email-<row>-resume-<time>
Days == 0..MaxDay
Never == -1

ASSUME ConstantsAssumption ==
  /\ Cap \in Nat \ {0} /\ Attempts \in Nat \ {0} /\ MinAttempted \in Nat \ {0}
  /\ MaxDay \in Nat /\ MaxEvents \in Nat
  /\ Address \in [Contacts -> Nat] /\ ServedBy \in [Campaigns -> SUBSET Contacts]
  /\ IsFiniteSet(Campaigns) /\ IsFiniteSet(Contacts)
  /\ NoJob \notin Jobs /\ NoRow \notin Rows

VARIABLES
  day,
  status,     \* each campaign's
  row,        \* each recipient's: absent | pending | sent | failed
  plannedFor, \* send_after
  sentOn,     \* sent_at
  optedOut, bounced,
  job, made,  \* each job, and its attemptsMade while it is to be tried
  stalled,    \* jobs whose worker has died once
  cur, pc,    \* the job the worker has, and its step
  verdict,    \* how the campaign it looked at has ended
  sync,       \* the row the mailbox's sync has marked, not yet committed
  trips,      \* whether it pauses the row's campaign as well
  resumes, events,
  sends,      \* history: emails of each row that left
  lost,       \* history: of those, the ones that could not be written down
  afterNo,    \* history: emails that left after the person unsubscribed, or bounced
  overrun     \* history: emails that left after the campaign was stopped

tableVars   == <<status, row, plannedFor, sentOn, optedOut, bounced>>
queueVars   == <<job, made, stalled>>
workerVars  == <<cur, pc, verdict>>
syncVars    == <<sync, trips>>
historyVars == <<sends, lost, afterNo, overrun>>
vars == <<day, tableVars, queueVars, workerVars, syncVars, resumes, events, historyVars>>

Init ==
  /\ day = 0
  /\ status = [c \in Campaigns |-> "absent"]
  /\ row = [r \in Rows |-> "absent"]
  /\ plannedFor = [r \in Rows |-> Never] /\ sentOn = [r \in Rows |-> Never]
  /\ optedOut = {} /\ bounced = {}
  /\ job = [j \in Jobs |-> "none"]
  /\ made = [j \in Jobs |-> 0]
  /\ stalled = {}
  /\ cur = NoJob /\ pc = "idle" /\ verdict = "open"
  /\ sync = NoRow /\ trips = FALSE
  /\ resumes = 0 /\ events = 0
  /\ sends = [r \in Rows |-> 0] /\ lost = [r \in Rows |-> 0]
  /\ afterNo = [p \in Contacts |-> 0] /\ overrun = [c \in Campaigns |-> 0]

-----------------------------------------------------------------------------
(* Sending a campaign.                                                     *)

RowsOf(c)         == {r \in Rows : r[1] = c}
In(rows, c, s)    == {r \in RowsOf(c) : rows[r] = s}
Reachable(c)      == ServedBy[c] \ (optedOut \cup bounced)
SentToday         == {r \in Rows : row[r] = "sent" /\ sentOn[r] = day}

LargerOf(a, b)  == IF a >= b THEN a ELSE b
SmallerOf(a, b) == IF a <= b THEN a ELSE b

(* splitByDailyCap: the first day takes what is left of today's cap, every *)
(* other a whole cap.  A plan says how many days each person waits, in the *)
(* order of their addresses.                                               *)
Plans(audience, used) ==
  {wait \in [audience -> 0..Cardinality(audience)] :
     /\ \A p, q \in audience : Address[p] < Address[q] => wait[p] <= wait[q]
     /\ \A d \in 0..Cardinality(audience) :
          Cardinality({p \in audience : wait[p] = d}) =
            SmallerOf(Cardinality({p \in audience : wait[p] >= d}),
                      IF d = 0 THEN LargerOf(0, Cap - used) ELSE Cap)}

(* An audience has one contact of each address.                            *)
Audiences(c) ==
  {A \in SUBSET Reachable(c) : \A p \in Reachable(c) : Cardinality({q \in A : Address[q] = Address[p]}) = 1}

(* The campaign's row is locked while a sync's pause of it is uncommitted. *)
CampaignFree(c) == ~ (trips /\ sync[1] = c)

QueueCampaign(c) ==
  /\ status[c] = "absent"
  /\ \E A \in Audiences(c) \ {{}} : \E wait \in Plans(A, Cardinality(SentToday)) :
       /\ \A p \in A : day + wait[p] <= MaxDay
       /\ row' = [r \in Rows |-> IF r[1] = c /\ r[2] \in A THEN "pending" ELSE row[r]]
       /\ plannedFor' = [r \in Rows |-> IF r[1] = c /\ r[2] \in A THEN day + wait[r[2]] ELSE plannedFor[r]]
       /\ job' = [j \in Jobs |-> IF j[1][1] = c /\ j[1][2] \in A /\ j[2] = 0 THEN "waiting" ELSE job[j]]
  /\ status' = [status EXCEPT ![c] = "sending"]
  /\ UNCHANGED <<day, sentOn, optedOut, bounced, made, stalled, workerVars, syncVars, resumes, events, historyVars>>

-----------------------------------------------------------------------------
(* Resume, Stop, and people who want no more.                              *)

Happens == events < MaxEvents /\ events' = events + 1

(* MUTANT: the job's own id is used again, and taken for a repeat. *)
SameJob(n) == 0

(* A resumed person's job has an id of its own.                            *)
ResumeJob(n) == n

Resume(c) ==
  /\ status[c] = "paused" /\ CampaignFree(c) /\ Happens
  /\ LET again == {j \in Jobs : j[1] \in In(row, c, "pending") /\ j[2] = ResumeJob(resumes + 1)
                                 /\ job[j] = "none"}
     IN  job' = [j \in Jobs |-> IF j \in again THEN "waiting" ELSE job[j]]
  /\ status' = [status EXCEPT ![c] = "sending"]
  /\ resumes' = resumes + 1
  /\ UNCHANGED <<day, row, plannedFor, sentOn, optedOut, bounced, made, stalled, workerVars, syncVars, historyVars>>

Stop(c) ==
  /\ status[c] \in {"paused", "sending"} /\ CampaignFree(c) /\ Happens
  /\ status' = [status EXCEPT ![c] = "stopped"]
  /\ UNCHANGED <<day, row, plannedFor, sentOn, optedOut, bounced, queueVars, workerVars, syncVars, resumes, historyVars>>

(* By the link in an email, by a reply, or by STOP on WhatsApp.            *)
Unsubscribe(p) ==
  /\ p \notin optedOut /\ Happens
  /\ optedOut' = optedOut \cup {p}
  /\ UNCHANGED <<day, status, row, plannedFor, sentOn, bounced, queueVars, workerVars, syncVars, resumes, historyVars>>

-----------------------------------------------------------------------------
(* The worker: one job at a time.                                          *)

At(step)  == pc = step
Rcpt      == cur[1]       \* the row of the job at hand
Camp      == cur[1][1]    \* its campaign
Person    == cur[1][2]    \* its person
Goes(step) == pc' = step /\ UNCHANGED <<cur, verdict>>

LetsGo == cur' = NoJob /\ pc' = "idle" /\ verdict' = "open"
Ends   == /\ job' = [job EXCEPT ![cur] = "done"]
          /\ made' = [made EXCEPT ![cur] = 0] /\ stalled' = stalled \ {cur}
          /\ LetsGo

GivenUp == /\ job'  = [job EXCEPT ![cur] = "dead"]
           /\ made' = [made EXCEPT ![cur] = 0] /\ stalled' = stalled \ {cur}

(* BullMQ: an attempt that throws is counted, and tried again while there  *)
(* are attempts.                                                           *)
Throws ==
  /\ LetsGo
  /\ \/ /\ made[cur] + 1 < Attempts
        /\ made' = [made EXCEPT ![cur] = @ + 1]
        /\ job'  = [job EXCEPT ![cur] = "waiting"] /\ UNCHANGED stalled
     \/ made[cur] + 1 >= Attempts /\ GivenUp

(* MUTANT: a resumed person is sent to at once. *)
DelayedToUnlessResumed(j) == IF j[2] = 0 THEN plannedFor[j[1]] ELSE 0

(* The delay of a job: to the day its person was planned for, for a        *)
(* resumed one too.                                                        *)
DelayedTo(j) == plannedFor[j[1]]

Take(j) ==
  /\ At("idle") /\ job[j] = "waiting" /\ DelayedTo(j) <= day
  /\ job' = [job EXCEPT ![j] = "active"]
  /\ cur' = j /\ pc' = "read" /\ UNCHANGED verdict
  /\ UNCHANGED <<day, tableVars, made, stalled, syncVars, resumes, events, historyVars>>

(* MUTANT: whoever has been sent to is sent to again. *)
NothingToDoButSent(r) == status[r[1]] \in {"paused", "stopped"} \/ row[r] \in {"absent", "failed"}

(* The campaign is held, or somebody is done with this person.             *)
NothingToDo(r) == status[r[1]] \in {"paused", "stopped"} \/ row[r] # "pending"

(* emailRecipientForSend and the returns that follow it.                   *)
ReadRecipient ==
  /\ At("read")
  /\ \/ NothingToDo(Rcpt) /\ Ends
     \/ /\ ~NothingToDo(Rcpt)
        /\ Goes(IF Person \in optedOut \cup bounced THEN "refuse" ELSE "send")
        /\ UNCHANGED queueVars
  /\ UNCHANGED <<day, tableVars, syncVars, resumes, events, historyVars>>

(* The mailbox is not there any more, or its sign-in is refused.           *)
SignInFails ==
  /\ At("send") /\ Goes("unplug")
  /\ UNCHANGED <<day, tableVars, queueVars, syncVars, resumes, events, historyVars>>

PauseForMailbox ==
  /\ At("unplug") /\ CampaignFree(Camp)
  /\ status' = [status EXCEPT ![Camp] = IF @ = "sending" THEN "paused" ELSE @]
  /\ Ends
  /\ UNCHANGED <<day, row, plannedFor, sentOn, optedOut, bounced, syncVars, resumes, events, historyVars>>

Leaves ==
  /\ sends'   = [sends EXCEPT ![Rcpt] = @ + 1]
  /\ afterNo' = [afterNo EXCEPT ![Person] = IF Person \in optedOut \cup bounced THEN @ + 1 ELSE @]
  /\ overrun' = [overrun EXCEPT ![Camp] = IF status[Camp] = "stopped" THEN @ + 1 ELSE @]

Accepted ==
  /\ At("send") /\ Leaves /\ Goes("mark")
  /\ UNCHANGED <<day, tableVars, queueVars, syncVars, resumes, events, lost>>

(* MUTANT: a busy server is tried again from where the attempt was. *)
TriesAgainUnread == made' = [made EXCEPT ![cur] = @ + 1] /\ UNCHANGED <<job, stalled, workerVars>>

(* A later attempt begins at the beginning.                                *)
TriesAgain == Throws

(* A busy server is tried again, at the last attempt it is given up.       *)
BusyServer ==
  /\ At("send")
  /\ \/ made[cur] + 1 < Attempts /\ TriesAgain
     \/ made[cur] + 1 >= Attempts /\ Goes("refuse") /\ UNCHANGED queueVars

Busy == BusyServer /\ UNCHANGED <<day, tableVars, syncVars, resumes, events, historyVars>>

(* The server took the email and its answer never came.                    *)
AnswerLost ==
  /\ BusyServer /\ Happens
  /\ Leaves /\ lost' = [lost EXCEPT ![Rcpt] = @ + 1]
  /\ UNCHANGED <<day, tableVars, syncVars, resumes>>

Refused ==
  /\ At("send") /\ Goes("refuse")
  /\ UNCHANGED <<day, tableVars, queueVars, syncVars, resumes, events, historyVars>>

MarkSent ==
  /\ At("mark")
  /\ row'    = [row EXCEPT ![Rcpt] = IF @ = "pending" THEN "sent" ELSE @]
  /\ sentOn' = [sentOn EXCEPT ![Rcpt] = IF row[Rcpt] = "pending" THEN day ELSE @]
  /\ Goes("check")
  /\ UNCHANGED <<day, status, plannedFor, optedOut, bounced, queueVars, syncVars, resumes, events, historyVars>>

MarkFailed ==
  /\ At("refuse")
  /\ row' = [row EXCEPT ![Rcpt] = IF @ \in {"pending", "sent"} THEN "failed" ELSE @]
  /\ Goes("check")
  /\ UNCHANGED <<day, status, plannedFor, sentOn, optedOut, bounced, queueVars, syncVars, resumes, events, historyVars>>

-----------------------------------------------------------------------------
(* finish: a look at the whole campaign, one transaction.                  *)

(* shouldTrip, on the rows as the reader sees them.                        *)
ShouldTrip(rows, c) ==
  LET failed    == Cardinality(In(rows, c, "failed"))
      attempted == failed + Cardinality(In(rows, c, "sent"))
  IN  attempted >= MinAttempted /\ failed * 2 > attempted

(* pauseBroadcastIfFailing goes on to its update.                          *)
WouldPause(rows, c) == In(rows, c, "pending") # {} /\ ShouldTrip(rows, c)

(* How the campaign has ended, by its rows.                                *)
Outcome(c) == IF In(row, c, "sent") = {} /\ In(row, c, "failed") # {} THEN "failed" ELSE "completed"

(* Only this worker decides people, so both counts of finish agree on      *)
(* whether somebody is pending: one look stands for both.                  *)
LookAtCampaign ==
  /\ At("check")
  /\ \/ WouldPause(row, Camp) /\ Goes("pausing") /\ UNCHANGED queueVars
     \/ /\ In(row, Camp, "pending") = {} /\ status[Camp] = "sending"
        /\ verdict' = Outcome(Camp) /\ pc' = "close"
        /\ UNCHANGED <<cur, queueVars>>
     \/ /\ ~WouldPause(row, Camp)
        /\ In(row, Camp, "pending") # {} \/ status[Camp] # "sending"
        /\ Ends
  /\ UNCHANGED <<day, tableVars, syncVars, resumes, events, historyVars>>

PauseFailing ==
  /\ At("pausing") /\ CampaignFree(Camp)
  /\ status' = [status EXCEPT ![Camp] = IF @ = "sending" THEN "paused" ELSE @]
  /\ Ends
  /\ UNCHANGED <<day, row, plannedFor, sentOn, optedOut, bounced, syncVars, resumes, events, historyVars>>

(* The update does not ask for the status again.                           *)
Close ==
  /\ At("close") /\ CampaignFree(Camp)
  /\ status' = [status EXCEPT ![Camp] = verdict]
  /\ Ends
  /\ UNCHANGED <<day, row, plannedFor, sentOn, optedOut, bounced, syncVars, resumes, events, historyVars>>

-----------------------------------------------------------------------------
(* What goes wrong.                                                        *)

(* An email that left and was not written down is one the system forgets.  *)
Forgets == lost' = IF At("mark") THEN [lost EXCEPT ![Rcpt] = @ + 1] ELSE lost

DatabaseFails ==
  /\ pc \notin {"idle", "send"} /\ Happens
  /\ Throws /\ Forgets
  /\ UNCHANGED <<day, tableVars, syncVars, resumes, sends, afterNo, overrun>>

(* BullMQ puts a stalled job back once.                                    *)
WorkerDies ==
  /\ ~At("idle") /\ Happens
  /\ \/ /\ cur \notin stalled
        /\ job' = [job EXCEPT ![cur] = "waiting"]
        /\ stalled' = stalled \cup {cur} /\ UNCHANGED made
     \/ cur \in stalled /\ GivenUp
  /\ LetsGo /\ Forgets
  /\ UNCHANGED <<day, tableVars, syncVars, resumes, sends, afterNo, overrun>>

-----------------------------------------------------------------------------
(* The mailbox's sync.                                                     *)

(* The newest email to the address that counts as sent.                    *)
Newest(a) == {r \in Rows : /\ Address[r[2]] = a /\ row[r] = "sent"
                           /\ \A q \in Rows : Address[q[2]] = a /\ row[q] = "sent" => sentOn[q] <= sentOn[r]}

(* A bounce from the address is read, perhaps again: a sync reads the last *)
(* mails of the inbox, whether it has seen them or not.                    *)
ReadBounce(a) ==
  /\ sync = NoRow /\ Happens
  /\ \E r \in Newest(a) :
       /\ sync' = r
       /\ trips' = (WouldPause([row EXCEPT ![r] = "failed"], r[1]) /\ status[r[1]] = "sending")
  /\ UNCHANGED <<day, tableVars, queueVars, workerVars, resumes, historyVars>>

SyncCommits ==
  /\ sync # NoRow
  /\ row' = [row EXCEPT ![sync] = "failed"]
  /\ bounced' = bounced \cup {sync[2]}
  /\ status' = [status EXCEPT ![sync[1]] = IF trips THEN "paused" ELSE @]
  /\ sync' = NoRow /\ trips' = FALSE
  /\ UNCHANGED <<day, plannedFor, sentOn, optedOut, queueVars, workerVars, resumes, events, historyVars>>

SyncFails ==
  /\ sync # NoRow /\ sync' = NoRow /\ trips' = FALSE
  /\ UNCHANGED <<day, tableVars, queueVars, workerVars, resumes, events, historyVars>>

Tick ==
  /\ day < MaxDay /\ day' = day + 1
  /\ UNCHANGED <<tableVars, queueVars, workerVars, syncVars, resumes, events, historyVars>>

-----------------------------------------------------------------------------
Works == \/ \E j \in Jobs : Take(j)
         \/ ReadRecipient \/ SignInFails \/ PauseForMailbox
         \/ Accepted \/ Busy \/ Refused \/ MarkSent \/ MarkFailed
         \/ LookAtCampaign \/ PauseFailing \/ Close

Next ==
  \/ \E c \in Campaigns : QueueCampaign(c) \/ Resume(c) \/ Stop(c)
  \/ \E p \in Contacts : Unsubscribe(p) \/ ReadBounce(Address[p])
  \/ Works \/ AnswerLost
  \/ DatabaseFails \/ WorkerDies
  \/ SyncCommits \/ SyncFails \/ Tick

Spec == Init /\ [][Next]_vars

-----------------------------------------------------------------------------
(* TypeOK: what each variable may be, how the worker's step and its job go *)
(* together, and that a sync pauses only the campaign of the row it marked.*)
TypeOK ==
  /\ day \in Days
  /\ status \in [Campaigns -> {"absent", "sending", "paused", "stopped", "completed", "failed"}]
  /\ row \in [Rows -> {"absent", "pending", "sent", "failed"}]
  /\ plannedFor \in [Rows -> Days \cup {Never}] /\ sentOn \in [Rows -> Days \cup {Never}]
  /\ optedOut \subseteq Contacts /\ bounced \subseteq Contacts
  /\ job \in [Jobs -> {"none", "waiting", "active", "done", "dead"}]
  /\ made \in [Jobs -> 0..Attempts] /\ stalled \subseteq Jobs
  /\ cur \in Jobs \cup {NoJob}
  /\ pc \in {"idle", "read", "send", "unplug", "mark", "refuse", "check", "pausing", "close"}
  /\ pc = "idle" <=> cur = NoJob
  /\ \A j \in Jobs : job[j] = "active" <=> cur = j
  /\ verdict \in {"open", "completed", "failed"}
  /\ verdict = "open" <=> pc # "close"
  /\ sync \in Rows \cup {NoRow} /\ trips \in BOOLEAN /\ (trips => sync # NoRow)
  /\ resumes \in 0..MaxEvents /\ events \in 0..MaxEvents
  /\ sends \in [Rows -> Nat] /\ lost \in [Rows -> Nat]
  /\ afterNo \in [Contacts -> Nat] /\ overrun \in [Campaigns -> Nat]

(* Nobody is emailed before the day they were planned for, also after the  *)
(* campaign was paused and resumed (campaign-control.ts: Resume used to    *)
(* send every remaining day's emails at once).                             *)
NotBeforeItsDay == \A r \in Rows : sends[r] > 0 => plannedFor[r] # Never /\ plannedFor[r] <= day

(* Once a person has unsubscribed or bounced, and once a campaign has been *)
(* stopped, the one email in hand may still leave, and no other, whatever  *)
(* is retried, resumed or put back (email-broadcast-processor.ts).         *)
OnlyTheOneInHand == /\ \A p \in Contacts : afterNo[p] <= 1
                    /\ \A c \in Campaigns : overrun[c] <= 1

(* Somebody pending in a campaign that is sending has a job that will come *)
(* to them, or one that BullMQ has given up: no order of pausing, resuming *)
(* and ending attempts leaves them behind (campaign-control.ts).           *)
NobodyForgotten ==
  \A r \in Rows : row[r] = "pending" /\ status[r[1]] = "sending" =>
    \E j \in Jobs : j[1] = r /\ job[j] \in {"waiting", "active", "dead"}

(* An email is a delayed message: it leaves at most once and the row says  *)
(* truly whether it did, as long as what left is written down.  A bounce   *)
(* makes a failure of a row that was sent; that it left stays on the row.  *)
(* An email whose answer was lost is tried again, so it counts as lost at  *)
(* once and none is left unheard.                                          *)
Decided(r) == IF row[r] \in {"absent", "pending"} THEN "open"
              ELSE IF sentOn[r] # Never THEN "sent" ELSE "failed"

Promise == INSTANCE OnceOnly WITH
  Messages  <- Rows,
  MayForget <- MaxEvents > 0,
  left      <- [r \in Rows |-> sends[r] - lost[r]],
  decision  <- [r \in Rows |-> Decided(r)],
  unheard   <- {}

(* Each campaign email is such a message, pauses, resumes, retries and     *)
(* bounces notwithstanding (email-broadcast-processor.ts).                 *)
ImplementsOnceOnly == Promise!Spec
=============================================================================
