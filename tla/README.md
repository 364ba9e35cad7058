# Nexus Agentic OS: specifications

TLA+ specifications of the parts of Nexus Agentic OS where messages to customers can be
lost, doubled, sent against somebody's wish, or left undecided: TLC models that check them on
small instances, and TLAPS proofs that hold for every instance.

Paths below are relative to `src/`.

## 1. The system

Nexus answers the customers of several businesses on WhatsApp (and on Messenger, Instagram and
by e-mail), lets people take over, and sends campaigns. Two processes share one database:

* the **API** (`apps/api`, Hono): Meta's webhook, the REST routes of the console, a WebSocket hub.
  A request is one database transaction, rolled back when its handler throws;
* the **worker** (`apps/api/src/worker.ts`): BullMQ queues over Redis, some fed by the API, some
  by timers. A job that throws is tried again with backoff; a job whose worker died is found
  stalled and run again.

Everything durable is in **Postgres**, behind row-level security. `packages/db/src/client.ts`
opens a transaction per tenant context and nests savepoints (`isolated`); `now()` is the
*beginning* of the transaction, which one observation in section 4 turns on. **Redis** also holds the lock of
each customer's conversation.

### Components

| Component | State | Operations | Interacts with | What is hard | What makes it correct |
|---|---|---|---|---|---|
| **Inbound pipeline** (`queue/processor.ts`, `queue/conversation-lock.ts`) | webhook jobs, the Redis lock, `messages`, `conversations`, `contacts`, metric rows | take a webhook, lock, record, decide custody, let the agent answer, send, escalate, fall back, commit | webhook, queue, agents, people's requests | one transaction spans a send; redelivery; a lock with a TTL; people locking the same rows in another order | one answer per message, none over a person, from the whole history; a STOP that was confirmed is saved; every delivery ends |
| **WhatsApp campaigns** (`queue/broadcast-processor.ts`, `services/campaign-control.ts`, `services/template-sync.ts`, `routes/broadcasts.ts`) | `broadcasts`, `broadcast_recipients`, send jobs | send, check again, resume, stop, release, one job per person, breaker, receipts | template sync, receipts, opt-outs | jobs that start before their request commits; progress counted inside open transactions; unconditional updates of the status | nobody is messaged twice, or after a STOP; the status is true; nobody is forgotten |
| **Scheduled messages** (`queue/scheduled-messages-processor.ts`) | `scheduled_messages` and their row locks | schedule, cancel, sweep | channel, thread | the sends and the claim share a transaction; overlapping sweeps | one copy; the row says what happened; due messages are decided |
| **Webhook intake** (`webhook/whatsapp.ts`, `queue/queue.ts`) | the queue and its remembered job ids | verify, enqueue under an id | pipeline, receipts | two different deliveries under one id | no receipt is dropped as a duplicate of another |
| **Delivery receipts, echoes** (`queue/processor.ts`, `packages/db/src/messages.ts`, `lib/campaign-test-status.ts`) | message and recipient statuses, a test's note in Redis, echoes | advance a status, record an echo, take custody for whoever wrote from their phone | campaigns, inbox | late, doubled, reordered; before the row they are about is committed; two jobs at one note | a status is the sum of the reports that reached it; an echo is shown once |
| **Switchboard, triage** (`queue/processor.ts`, `agents/src/business-router.ts`, `packages/db/src/routing.ts`) | a conversation's routing, its menu, its attempts | place by answer, words or campaign; ask; give up; release a stale handoff | pipeline, availability | reads that fail look like facts; a menu read after the list has changed; answers redelivered | a number means what was shown; asking is bounded; nobody is moved for a failure |
| **Tenant transactions** (`packages/db/src/client.ts`) | one connection, its blocks and its scope | open, nest, save, recover, undo, commit | everything | a swallowed failure turns a commit into a rollback; two branches on one connection | what was reported as done is committed; each statement runs as its business |
| Availability, assignment | shifts, presence, assignments | set, assign, alert | pipeline, switchboard | read at one moment, promised at another | a promised person exists |
| Conversations, inbox | conversations, read marks | reply, take, give back, tag, search | pipeline | the same rows as a running reply | custody is what the last person said |
| **E-mail campaigns** (`queue/email-broadcast-processor.ts`, `services/email-campaign-send.ts`, `services/campaign-control.ts`) | `email_campaigns`, recipients, delayed jobs, the mailbox | plan over days, send one, retry, pause, finish, resume, stop, unsubscribe | mailbox sync | a send with no transaction around it; jobs planned for days; a mailbox that stops working | once; not before its day; nobody forgotten; at most the email in hand after a no |
| E-mail sync, portal sync, calendar sync, template sync | cursors, imported rows | fetch, import, advance | outside services | one of several failing; a cursor ahead of its import | nothing is skipped, nothing doubled |
| **Operators, automations, tasks** (`services/operators.ts`, `services/automation-runner.ts`, `packages/db/src/operators.ts`, `automations.ts`, `tasks.ts`) | findings, acceptances, claims of automations, follow-ups | sweep, reconcile, tell, act; accept, take, give, close, switch off, delete | inbox | sweeps that overlap; claims left by a failed run; acceptances that lapse | acts once on a finding; a claim stands for an act; rows follow facts; told once |
| Social channels | connections, identities | inbound, reply | agents | the pipeline's shape without its lock | as the pipeline |
| Bookings, calendars | bookings, busy blocks | book, move, cancel, sync | agents | a check before an insert | no double booking |
| Contacts, client book, memory | contacts, opt-outs, owners | upsert, merge, own | all senders | two identities of one person | an opt-out binds every sender |
| Procedures, forecasts, quality, metrics | derived tables | nightly jobs | | arithmetic | agreement with a reference |
| Catalog, retrieval, governance, agents | documents, vectors, policies | ingest, search, judge, answer | pipeline | | data and judgement, no shared state of interest |
| Push, alerts, team chat, sessions, seats, vault, HQ checks, web console | their own rows | | | | single statements or pure I/O |

`PROJECT.json` lists each with its files, its state (modelled, partly, not modelled) and why.

### How the modelled parts meet

The parts do not call each other. They meet in the database (a contact's opt-out, the thread,
custody, a conversation's routing) and in two promises.

*A message leaves once and the row says whether it did, as far as the sender was told.* A channel
can take a message and its answer be lost (`whatsapp-client.ts` calls `fetch`, which may reject after
Meta has accepted; a mail server's answer may not arrive); then `failed` says only what the sender
heard. That promise is `OnceOnly`; the three
senders whose rows are decided one by one (scheduled messages, WhatsApp campaigns, e-mail
campaigns) are each shown to keep it, and so is the inbound pipeline for the answers of the agent,
where the metric row is the decision. What they send comes back as reports, in `DeliveryReceipts`.

*Work that is told it is done is saved, and work that is told it was undone left nothing.* In
between is work that is told of an error: it is saved or gone as a whole, and the caller does not
know which, since a COMMIT can succeed and its answer be lost. That promise is `AllOrNothing`;
`TenantTransaction` shows what `client.ts` does to keep it. Every other module
relies on it: where one of them says a step rolls back, or fails inside a savepoint and goes on,
it uses what is shown there.

The pipeline is modelled twice, from two sides. `InboundPipeline` has many jobs and many people at
one customer of a business with a number of its own: locks, deadlock, custody, redelivery.
`Switchboard` has a shared number and one message in hand at a time, which the contact's row lock
in `InboundPipeline` is what justifies (`NobodyTalksOver` rests on it): there the question is which
business answers and what each failing read does.

The opt-out appears in `InboundPipeline` as what a STOP must save before it is confirmed, in
`Campaign` and `EmailCampaign` as what a send must ask before it leaves.

## 2. Modules

| Module | What it is |
|---|---|
| `OnceOnly` | abstract: a message leaves at most once, then is decided, and the decision says what the sender was told (or, where a worker may die before it writes, unknown): "failed" of a message that left only if its answer was lost (`unheard`); what may fail can forget, before the decision, that it left, but a lost answer gives no second chance |
| `AllOrNothing` | abstract: what a piece of work is told ("ok", "undone", lost in silence, an error), and what is there afterwards |
| `ScheduledMessages` | the rows of `scheduled_messages`, the sweeps and the requests that cancel; refines `OnceOnly` |
| `Campaign` | one campaign: its rows, its jobs, the requests, the template sync, receipts; refines `OnceOnly` |
| `EmailCampaign` | the campaigns of one mailbox: plans, the worker, the mailbox's failures, bounces; refines `OnceOnly` |
| `InboundPipeline` | the webhook jobs of some customers, the lock, the transactions, the people; refines `OnceOnly` |
| `Switchboard` | one conversation on a number that several businesses share |
| `DeliveryReceipts` | deliveries of reports, the queue that takes them, the rows and notes they change |
| `TenantTransaction` | blocks, branches, failures and the commit of one connection; refines `AllOrNothing` |
| `FollowUps` | operators, findings, acceptances, automations, follow-ups |
| `MC...` | an instance of each for TLC |
| `...Proofs` | theorems and proofs, a module for each of the eight detailed ones |

Operators marked `MUTANT` in a module are not part of the specification. Each is a plausible
mistake in one definition, and replacing the definition by it makes a property fail: evidence
that the property depends on the code being right.

### ScheduledMessages

A row is `none`, `pending`, `sending`, `sent`, `failed`, `cancelled`. `holder` is the row lock that
`for update skip locked` takes; `draft`, `gone`, `noted` are what a sweep has written or done
inside its open transaction; `Commit` makes them true and `Crash` forgets them.

| Action | Code |
|---|---|
| `Schedule`, `Cancel` | `createScheduledMessage`, `cancelScheduledMessage` |
| `Claim` | `claimDueScheduledMessages`: up to `Limit` due rows nobody has locked |
| `SendAccepted`, `SendRefused` | the dispatch of one message |
| `SendUnanswered` | the channel took it and its answer was lost: to the sweep, a refusal (`unheard`) |
| `Record` | the thread row, the pause and the handoff, in one savepoint |
| `Mark` | `markScheduledMessageSent` / `markScheduledMessageFailed`, which may fail and leave `sending` |
| `Commit`, `Crash` | the end of `withAllTenants` around the whole sweep |

### Campaign

A job is one transaction at READ COMMITTED. `View(j)` is what it sees: what others have committed,
and its own mark. The order of its steps is the processor's: `Start` reads the status,
`LockRecipient` waits for the row and asks about opt-outs, one of the four `Send...` steps follows
(accepted; accepted and not marked; accepted and the answer lost; refused),
then the progress (`ReadOutcome`, `Breaker`, `Pausing`, `Finish`, `Closing`), each a step of its own
because another job may commit in between, and `Commit`. A refusal is never retried, whatever its reason:
the code rethrows what it takes for an outage, but the client's error carries no status it could tell
one by (section 4). A job is retried when a statement before the send fails, or the one that marks
a row failed after it (`JobFails`), or when its worker died (`Crash`). `ProgressFails` is the savepoint around
the progress being rolled back.

`BeginSend`/`CommitRequest`/`RollBackRequest` are the routes, whose jobs are on the queue before
their rows are committed; `BeginCheck` is "check again"; `SyncClaim`, `SyncQueue`, `SyncRefused`,
`SyncDies` are the same release run by the half-hourly sync, where no transaction spans it.
`Resume` and `Stop` commit in the step they take effect. `Receipt`, `ReceiptCheck`,
`ReceiptPausing` are a delivery receipt and the breaker it may trip.

`origin` is where the campaign came from: `absent` (created by the Send itself), `draft` (created
earlier), `scheduled` (waiting for its template).

Abstractions: the blank-number guard is left out; the read of the pending people and the claim in
the sync are one step; the breaker's floor of ten tries is the constant `MinAttempted`. A job's last
attempt comes after the request that queued it has ended (`BackedOff`: exponential backoff from
five seconds against a request of milliseconds), and so does every job of a Resume, which is
delayed ten seconds for that reason.

### InboundPipeline

A job is a webhook: a sequence of messages, each handled under the lock of its customer.

*On a business's line* one transaction runs from `Record` to `Commit`. `Record` is everything up to
the first point where somebody else's action matters: the contact's row is upserted (and so locked
until the commit), the message inserted unless it is known, a known one asked whether it was
accounted for, and handoff and pause read. It goes to `commit` (accounted for, or paused),
`assign` (to be answered, or held by a person and only to be assigned), `stop`, or `stale` (a
handoff nobody on shift stands behind, released by `ReleaseStale`). `Compose` reads the history;
`SendReply`, `SendRefused`, `SendUnheard` and `SendUnfinished` are the outcomes of the send and the
bookkeeping behind it (a reply that left and whose answer was lost is to the job one that did not
leave, so the fallback follows; the fallback's own answer may be lost too, `FallbackUnheard`);
`Escalate` pauses the agent; `Fallback` and `Flag` are the two ends of the
catch block; `HonourStop` saves and confirms an opt-out. `Commit` writes all of it at once.

*On a person's own line* `RecordOwn`, `HonourOwnStop` and `RouteOwn` are transactions of their own.

*People* reply, take a conversation and give it back (`PersonStarts`, `PersonCommits`). A reply
locks the contact and then the conversation; the toggle locks the conversation and then the
contact. The pipeline locks the contact and then the conversation, so a toggle and a reply of the
agent can deadlock: `JobIsVictim` and `PersonIsVictim` are Postgres ending either.

`Crash` is the worker's death: transactions roll back, Redis locks stay until `Expire`, jobs become
waiting again. `Lapse` is a lock whose TTL ends under a slow reply. `overstayed`, `answers`,
`forgotten`, `offRecord` and `talkedOver` are history, read by no guard. An
answer nobody was told of is `forgotten` from the start.

As the promise of `OnceOnly` sees it, a message to be answered has left as often as it was answered,
less the answers that are `forgotten`, and is decided once a metric row of its conversation is as late
as its record (`Known`, which is what `wasAccountedFor` asks of a message that comes again).

Abstractions: what the agent, the judge and the model say is open; so is whether somebody is on
shift, and whom a conversation is assigned to (only the row lock it takes is kept). The webhooks are
all queued at the start, and arrive whenever they are first taken. The number belongs to one
business (no triage). Each customer's conversation is one row. A message is a model value with a
line and a kind (ordinary, stop, or one the database refuses each time).

### DeliveryReceipts

A message is `accepted` by Meta and then `recorded` by a commit, or `lost` with a rollback
(`Commit`, `RollBack`); reports may come before either. `Post` puts a delivery on the queue under the
id the webhook gives it, or drops it where the queue remembers that id; `Forget` is
`removeOnComplete`. A job goes through its reports one by one: `Update` is the guarded statement of a
reply, a recipient or an echo, `ReadNote`/`WriteNote` the two halves of a test's note in Redis,
`RecordEcho`/`TakeCustody`/`Publish` an echo, and `LookupFails`, `Swallow`, `EchoFails`, `Crash` what
fails and how far.

Abstractions: a number that cannot be billed, the wording of errors, and the breaker a failed
receipt may trip (that is in `Campaign`).

### FollowUps

One business and two operators of the many: those whose findings automations may act on. A sweep is
`StartSweep`, for each operator `LookFor` (what is true now) and `Reconcile` (make the rows say so),
then `Tell`, then the automations' transaction: `BeginRun` lists the open findings, and for each rule
and finding `ClaimFinding` inserts a claim, then `Act`, or `CannotAct`; `CommitRun` or `Undone` ends
it. `Dies` is a death at any step, between the claim and the act too; the next sweep may start beside
one that lives.

What the code leaves out is left out here: `Tell` sends only the severities in `Loud` (none without a
webhook, `urgent` with one, `warn` too where `ALERT_ON_WARN` says so), and only of what has newly
become true, at the severity it was found with; a list holds `Limit` findings (200), the urgent before
the others and the older before the newer, and one that is accepted or has been acted on keeps its
place in it; `CannotAct` may fail to write down why, which is swallowed (`mute`).

The world acts in between: customers write, wait long and are answered, people take, close,
reopen and are made to leave, rules are switched and deleted, findings accepted.

### TenantTransaction

A branch `Enter`s blocks of four kinds and leaves them by `Leave` or, after a failure, by `Undo`,
`LeaveBehind` or `Unwind`; where blocks take turns on the connection a branch `Waits` and `GetsTurn`.
What a branch writes (`Write`), what fails and what it catches (`Catches`) is open: a statement of the
work (`Fails`), which the record takes down (`health`), the block's own SAVEPOINT, switch or check
(`EnteringFails`, `LeavingFails`), which goes past the record (`ownFailed`), the work itself
(`Refused`, `ThrowsItself`), the connection (`ConnectionDies`). `Commit` is what PostgreSQL answers a
COMMIT with, and what is there when no answer comes: all of it or nothing. `AfterRollback` is what the
caller is told of a COMMIT that came back ROLLBACK.

Abstractions: plain writes of a sibling are kept away from the inside of another branch's block
(`Beside`), which is what `client.ts` asks of its callers; its plain reads are not, and see the view of
the block. A block that serves another business is entered only with no sibling about, as the
callers do; `withContactOwner` is `withServingTenant` with another check; whether work lost that way is an error
(a request) or a line in the log (a job) is chosen in `AfterRollback`; what a branch still states
after its sibling was rejected is left out.

### EmailCampaign

A day is 24 hours and the audience one reachable contact per address. `QueueCampaign` plans over the days left by
the cap, `Take` hands the worker a job whose day has come, and each step of the worker is a
transaction of its own: `ReadRecipient`, `SignInFails`, `PauseForMailbox`, `Leaves` and its outcomes
(`Accepted`, `BusyServer`, `AnswerLost`, `Refused`), `MarkSent`/`MarkFailed`, `LookAtCampaign`,
`PauseFailing`, `Close`. `Forgets` is BullMQ giving up a job, `WorkerDies` a death at any step, `Unsubscribe` and
`ReadBounce` the two ways a person is taken off; `Resume` queues everybody pending under new ids, counted by how many
Resumes there were.

Abstractions: one look stands for the two counts of `finish`; the conversation record written after a
send, what the email says, and which mailbox a sender gets are left out; requests are atomic, since
what they queue is delayed ten seconds.

### Switchboard

One conversation. `conv` is its committed row and `tx` the row as the transaction of the message in
hand has it; `pc` is where that message is.

| Actions | Code |
|---|---|
| `Deactivate`, `JoinNumber`, `ChangeShift`, `WindowPasses`, `Say`, `GiveBack` | the world: businesses come and go, shifts change, the five-minute window ends, the customer writes, a person gives back |
| `LeaveNumber` | `accepts_shared_number` switched off for a business other than the owner, by hand: migration 009 has the column, no route writes it |
| `AgentHasIt`, `PersonHasIt`, `ReleaseStale` | custody: a handoff nobody can take is released |
| `Unshared`, `LookUp`, `StaysRouted`, `RoutedIsGone` | `resolveServingOrganization`: what is known |
| `PlaceByAnswer`, `PlaceByWords`, `PlaceByCampaign`, `CommitRoute` | placing, and writing it |
| `Exhausted`, `WaitForChoice`, `AskWhichBusiness`, `MenuLeaves`, `MenuFails`, `NoteMenu` | the menu and its limits |
| `AgentReplies`, `TwinStandsDown`, `ReplyBlocked`, `NoReply` | the four ends of an answer |
| `Fallback`, `FallbackFails`, `FlagHandoff` | the apology and who is called |
| `Take`, `Commit`, `Undone` | the message's transaction |

Every read and write that may fail has its failing branch, paid from `troubles`: most failures are caught
and mean something (a routing that cannot be read is a new conversation, a shift that cannot be read
is a manned one), which is where this code can go wrong.

Abstractions: `about` stands for the keyword, deep-link and two-keyword rules; `said` is blanked once
its message is settled; the prompt's timestamp is the transaction's `now()`, so it and the menu on
the screen age together. Left out: a paused agent, the opt-out and the staff numbers' paths (in
`InboundPipeline` or not modelled), and `GiveBack` during a message (the interleavings of custody
requests are `InboundPipeline`'s).

## 3. Runs

| Run | Instance | Shows |
|---|---|---|
| `scheduled` | 3 messages, 2 sweeps of at most 2, lost answers, 1 crash, fair sweeps | a message leaves twice only if its first sweep was undone; the thread says what happened, the rows what the sweep was told; the sweeps implement `OnceOnly`; what is due is decided |
| `campaign_send` | 2 people, every origin, 2 jobs at once, lost answers, 2 attempts, 1 crash, 1 failed write, 1 opt-out | who is messaged twice, after a STOP or after a Stop, and what the rows and the campaign then say; implements `OnceOnly` |
| `campaign_release` | 2 people queued twice, created by Send or waiting for approval, fair workers | everybody is decided, however they were queued |
| `campaign_unpaused` (fails) | 2 people, no faults | finding 1 |
| `inbound` | 2 webhooks, the second repeating the first's second message, one customer, three kinds of line, 1 act of a person, 1 trouble, fair workers; the trouble may be a lost answer | the lock is its holder's; nobody is talked over; one answer, and no second one while nothing goes wrong; whole history; stops kept; implements `OnceOnly`; every delivery ends |
| `receipts` | 2 deliveries that share messages of every kind, queued up to 3 times, 2 attempts, 1 trouble, fair workers | statuses and notes are the sum of their reports; no report vanishes with another; echoes shown once; every job ends |
| `receipts_same_id` (fails) | one reply, two receipts in two deliveries | finding 2 |
| `followups` | 1 conversation, 2 follow-ups, 2 people, a rule of each kind, 2 sweeps, lists of 1, only `urgent` told, 2 events, 1 trouble, fair sweeps | an automation acts once; claims stand for acts, or a failure; acceptances end with what they accepted; what is urgent when it becomes true is told once; rows follow facts, and rules act on what is within reach of the list |
| `transaction` | 2 branches, blocks 2 deep, 5 steps, 2 troubles, fair work; any statement may fail, the blocks' own too | done means saved; only a failure breaks the transaction, and the record knows each but the blocks' own; each statement runs as its own business; implements `AllOrNothing`; the work ends |
| `email` | 2 campaigns over 2 people, a cap of one a day, 2 days, 2 events | not before its day; only the email in hand leaves after a no; nobody forgotten; implements `OnceOnly` |
| `switchboard` | 3 businesses, 2 messages that may come again, 2 menus, 1 change, 1 trouble | a number is read as shown; asking is bounded and paid for; routing is sticky; a person's conversation is kept |
| `switchboard_words` (fails) | the same, no change and no trouble | finding 3 |

### Properties

* *Counted against losses*: `AnsweredOnce`, `AskedPatiently`, `ToldOnce`. A second copy (a menu too
  many, a finding untold) is always *paid for* by one failure, so that a crash does not excuse more
  than one. A lost answer is such a failure: the answer nobody was told of may be given again
  (`AnsweredOnce`), and `ToldOnce` counts only what was `due` to be told, found at a severity in `Loud`.
  `AnsweredOnceInCalm` says that the losses
  `AnsweredOnce` counts need a failure at all, which is not plain: a commit loses the answer it
  carries when a metric row stamped with its transaction's beginning is older than the message.
* *The record is true*: `ThreadIsTrue`, `CompletedIsSettled`, `ConfirmedStopsAreKept`,
  `ClaimsAreKept`, `DoneMeansSaved`, `ReceiptsAddUp`, `TestsAddUp`, `EchoesAreMirrored`.
* *Nothing vanishes*: `EveryReportAccounted`, `NobodyForgotten`.
* *After a no*: `StopOverrunBounded`, `OneAfterOptOut`, `OnlyTheOneInHand`: how many messages are too
  late to stop.
* *Order and staleness*: `HolderIsInside`, `NobodyTalksOver`, `HistoryIsWhole`, `NeverActsTwice`,
  `AcceptanceIsOfThisTime`, `NotBeforeItsDay`, `BrokenByAFailure`, `RunsAsItsBusiness`,
  `ReadsTheMenuShown`, `StaysWithItsBusiness`, `HandoffsAreKept`.
* *Refinement*: `ImplementsOnceOnly` (four times), `ImplementsAllOrNothing`.
* *Liveness*: `DueIsDecided`, `EveryoneDecided`, `EveryDeliveryEnds`, `EveryJobEnds`,
  `FindingsFollowFacts`, `StandingFindingsAreActedOn`, `EveryWorkEnds`.

The type invariants, `EndsAsItWent`, `DecidedForGood` and `OnlyForward` are stated in the modules and
proved (section 5), which needs no run. So are `TwiceOnlyIfUndone` and `TwiceOnlyIfLost`, which count
copies against losses for the two senders whose refinement of `OnceOnly` a run checks: it implies them;
`DoneIsRecorded`, what is safe about `EveryDeliveryEnds` (a webhook that is done left no message out); and
`WaitsForAWorker`, what is safe about `EveryWorkEnds` (no two branches wait for each other).

### Bounds, and why they are enough

* Two sweeps, two jobs at once, two webhooks, two branches: the hazards listed are between two
  actors. Three messages against a `Limit` of two leave a due row behind for the other sweep; two
  recipients are the least for which "the last two jobs at once" exists; three businesses the least
  for which a menu can be narrowed.
* `Attempts` is 2 (3 and 5 in the code): one attempt that is retried, one that is the last.
  `MaxAttempts`, the menus, is 2 (3 in the code): one that is followed by another, one that is not.
* `Limit` of `FollowUps` is 1 (200 in the code): the least list that a finding which stands can fill,
  keeping every other out of it. `StandingFindingsAreActedOn` claims nothing of those (`InReach`), and
  a list in the wrong order (`LastFindings`) breaks it. Runs that hold several claims are what the proofs
  are about, for any `Limit`; TLC has gone through lists of 2 as well. `Loud` is `urgent` alone, the default.
* Lost answers have no bound of their own in `ScheduledMessages` and `Campaign` (every send is decided by
  its answer, so each row has at most one per attempt); in `InboundPipeline` they are of the
  `MaxTroubles`. `MaxFaults` of `Campaign` bounds statements that fail; it is 0 in
  `campaign_release`, since a person all of whose job's attempts fail stays pending.
* One crash, one failure, one opt-out, one change of the world: every property is about the first;
  the counting properties say that each loss costs at most one copy, and are proved for any number
  where a proof exists. `MaxTroubles` is a budget shared by crashes, failed statements, failed commits
  and lapsed locks; two in `TenantTransaction`, where a failure during the undoing of another matters.
* `MaxEvents` of `EmailCampaign` is a budget for resumes, stops, unsubscriptions, bounces, deaths,
  database failures and lost answers together; of `FollowUps`, for what people and customers do.
* `MaxBatches` 2: queued once, and once more. `MaxSends` 1: `CompletedIsSettled` is claimed for one
  Send only, since Send asks nothing of the status: a second one adds people after a job has looked and
  before it writes `completed`, which it does unconditionally. `MaxJobs` 3: two deliveries, one of them repeated.
* `Concurrency` 2 where two jobs must overlap, else 1; `Concurrency` 10 of the inbound worker exceeds
  the jobs of the run, and no job waits for a slot.
* `MinAttempted` 1 stands for 10, so that the breaker can trip with two recipients; `Cap` 1 makes two
  people a two-day plan; `MaxDay` is its second day.
* Inputs of `inbound`: two ordinary messages, and a bad message before a stop, on a business's line;
  an ordinary one before a stop on a person's line; two ordinary ones on the line of somebody who left.
* Inputs of `switchboard`: the number 2 (which is in range of every menu), and words about no
  business, about one, about two. It starts with all three on the number and nobody at the third, or
  with the third still to come, the second having written first and the first off shift. Its two
  messages are interchangeable and declared symmetric.
* `receipts`: a reply and a test whose reports come in either order and share deliveries; a recipient
  that fails and is read; an echo that is also reported read.

Deadlock is not checked: every instance really stops once all is sent, the bounds are used up and
nobody presses anything. Where someone must go on, a liveness property says so.

### Fairness

* Weak fairness of each job and each sweep: BullMQ runs what is waiting, and an open transaction
  runs on. A job blocked on a row lock or on Redis is not enabled, so nothing is assumed of it.
* Weak fairness of a request's end: a request commits or is rolled back.
* Weak fairness of `Expire`: Redis removes keys whose TTL is over. `Lapse` has none.
* In `TenantTransaction`, weak fairness of each branch's ending what it opened, and of the end
  of the whole: code that awaits a statement goes on when it is answered. Nothing assumes that a branch opens or writes anything.
* A release the sync has begun goes on unless it dies. Nobody is assumed to press anything, no
  receipt to arrive, no channel to accept, and no crash or failure to be limited except by its bound.

`EmailCampaign` has no liveness run: with days, delays and resumes the tableau is too large.
`NobodyForgotten` is its safety side: whoever is still pending has a job, or had one BullMQ gave up.

## 4. Findings

Shown by a run, and quoted with their lines in `PROJECT.json`:

1. **A finish can overwrite a pause** (`campaign_unpaused`): the status is read, then updated
   unconditionally, where a comment says that finishing never un-pauses.
2. **Receipts are dropped as duplicates** (`receipts_same_id`): `sent`, `delivered` and `read` of one message
   are queued under the same id, which a comment calls distinct between different receipts.
3. **The apology and the handoff ask about different businesses** (`switchboard_words`): the words
   follow the shift of the number's owner, the handoff that of the business that answers.

Seen while modelling, built into the models and not given a run of their own. Each is a place where a
property above is stated as narrowly as it is. First those where a comment or a page says otherwise:

* **`failed` may have left.** `whatsapp-client.ts:71` can reject after Meta took the message; a due message
  is then marked failed, where `scheduled-messages-processor.ts:111-112` says failed is what never went
  out. The same happens to the recipients of a campaign. `OnceOnly` says what is left of the promise: such a
  message is not sent again (`Truthful`, `unheard`).
* **The fallback on top of a reply.** For the same reason `sentToCustomer` can be false of a reply that left
  (`processor.ts:1461-1462`), and the customer gets the fallback on top of it, which `1543-1546` means to
  prevent. `AnsweredOnce` counts the reply as forgotten: it takes that failure to have two.
* **A rate limit is final.** `broadcast-processor.ts:33-39` says a failure the vendor might answer differently
  next time is rethrown. What tells such a failure (`isUpstreamUnavailable`, `scripts/upstream.ts:59-93`) reads a
  status off the error, and `whatsapp-client.ts:136-138` puts it in the text only: a person is marked
  failed on the first refusal, whatever it is. So `SendRefused` has no branch that retries.
* **A claim does not outlive its worker.** It is in the run's transaction (`automation-runner.ts:102`): after a
  death between claim and act the finding is claimed and acted on, where `db/automations.ts:185-186` says
  it is not retried. No harm is done, for the act is undone with the claim (`NeverActsTwice`).
* **A claim without act or reason.** Writing down why an act failed may fail, and is swallowed
  (`automation-runner.ts:151`): such a claim is counted as an act by the number that "says whether it earns its
  keep" (`db/automations.ts:22`). `ClaimsAreKept` says it takes a failure of the database.
* **What becomes urgent is not sent.** A customer who waits is found after two hours as a warning, which is not
  sent by default; after a day the row becomes urgent, which is nothing new, and is not sent either
  (`alert-dispatch.ts:121-127`). The deck says urgent findings are sent (`app/deck/operators/page.tsx:68`).
  `ToldOnce` is of what was urgent when it became true.
* **A list full of what is done.** A run takes up the first 200 open findings (`db/operators.ts:359-372`), those it
  has acted on among them; what is behind them waits until they end (`InReach`).
* **A sibling reads every business.** The view `acrossEveryBusiness` widens is the connection's, and a plain read
  issued beside it is widened too, where `client.ts:408-409` says the view is widened for its work alone. The
  one place in the routes where this happens (`links.ts:38`) spans every business already.
  `RunsAsItsBusiness` says that the view is wide while such a question is open, and at no other time.
* **A loss without its cause.** The failures of the blocks' own statements go past the record
  (`client.ts:418, 493, 516, 555, 647`), and work lost to one is reported with an undefined `cause`, where
  line 290 has it be the failure that was caught: `ownFailed` in `BrokenByAFailure`.
* **A COMMIT whose answer is lost** is rethrown as an error though all of it is there (`client.ts:327-344`):
  the third outcome of `AllOrNothing`.

And the rest:

* A sweep that crashes leaves no `sending` behind, because its claim is undone with it
  (`scheduled-messages.ts:124-127` says otherwise): the message is sent again.
* The last two jobs of a campaign may each see the other's person as pending, and the campaign stays
  `sending` (`broadcast-processor.ts:181`). An e-mail campaign stays so after a crash between
  the last mark and the finish, and after a Resume with nobody pending.
* Send on a stopped campaign starts it again (`routes/broadcasts.ts:346`); a job of a draft that runs
  before its request commits finds no recipient and returns for good (`broadcast-processor.ts:89`).
* A release by the template sync claims outside any transaction (`template-sync.ts:133`): one that dies
  leaves a claim nobody takes up.
* Two rows of one transaction have the same `created_at`, by which the history is ordered.
* On a person's line a message recorded and not yet routed is taken for handled by a retry
  (`processor.ts:630`).
* An automation's assignment does not ask whether the follow-up has been taken since (`tasks.ts:518`).
* The e-mail cap is applied within a plan, not across the plans of one mailbox.
* An opt-out or a bounce marks one contact row of an address; a bounce that is read again marks the
  latest campaign's e-mail.
* A routing that cannot be read is taken for none (`processor.ts:1678`), and a conversation in progress is
  asked again or moved: the exception in `StaysWithItsBusiness`.
* A bare "2" written before a menu arrived, handled after it, is read as its answer.
* A menu, an apology or a wait leaves no metric row, so the message is handled anew if it is
  delivered again (`processor.ts:1085`).

## 5. Proofs

Every theorem holds for all values of the constants that satisfy the module's
`ConstantsAssumption`: any number of messages, jobs, sweeps, recipients, attempts, crashes, faults
and people. The assumptions ask for no more than natural numbers, finite sets where the code counts,
nonempty batches, and null values that are not jobs.

| Module | Theorem | Says |
|---|---|---|
| `ScheduledMessagesProofs` | `TypeCorrect`, `OneCopyPerCommittedSweep`, `RowsEndAsTheyWent`, `TheThreadIsTrue`, `DecisionsStand` | `TwiceOnlyIfUndone`, `EndsAsItWent`, `ThreadIsTrue`, `DecidedForGood` |
| | `SweepsAreOnceOnly` | the sweeps implement `OnceOnly` |
| `CampaignProofs` | `TypeCorrect`, `OneMessageEach`, `StopIsHeard`, `RecipientsGoForward` | `TwiceOnlyIfLost`, `OneAfterOptOut`, `OnlyForward` |
| | `StopIsBounded`, `CompletionIsFinal` | `StopOverrunBounded`, `CompletedIsSettled` |
| | `CampaignsAreOnceOnly` | a campaign implements `OnceOnly` |
| `InboundPipelineProofs` | `TypeCorrect`, `LockIsItsHolders`, `NobodyIsTalkedOver` | `HolderIsInside`, `NobodyTalksOver` |
| | `AnswersAreAccounted`, `NobodyIsAnsweredAgain`, `HistoryIsRead`, `StopsAreHonoured` | `AnsweredOnce`, `AnsweredOnceInCalm`, `HistoryIsWhole`, `ConfirmedStopsAreKept` |
| | `NothingIsLeftOut` | `DoneIsRecorded` |
| | `AnswersAreOnceOnly` | the pipeline implements `OnceOnly` |
| `DeliveryReceiptsProofs` | `TypeCorrect`, `RowsAddUp`, `NotesAddUp` | `ReceiptsAddUp`, `TestsAddUp` |
| | `ReportsAreAccounted`, `EchoesAreShownOnce` | `EveryReportAccounted`, `EchoesAreMirrored` |
| `FollowUpsProofs` | `TypeCorrect`, `ActsOnce`, `ClaimsAreOfActs` | `NeverActsTwice`, `ClaimsAreKept` |
| | `AcceptancesEndWithTheFinding`, `WhatIsNewIsToldOnce` | `AcceptanceIsOfThisTime`, `ToldOnce` |
| `TenantTransactionProofs` | `TypeCorrect`, `DoneIsSaved`, `OnlyFailuresBreak`, `ItsOwnBusiness` | `DoneMeansSaved`, `BrokenByAFailure`, `RunsAsItsBusiness` |
| | `NobodyWaitsInACircle` | `WaitsForAWorker` |
| | `AllOrNothingHolds` | the transaction implements `AllOrNothing` |
| `EmailCampaignProofs` | `TypeCorrect`, `NobodyIsEmailedEarly`, `NobodyIsForgotten`, `OneEmailInHand` | `NotBeforeItsDay`, `NobodyForgotten`, `OnlyTheOneInHand` |
| | `EmailsAreOnceOnly` | an e-mail campaign implements `OnceOnly` |
| `SwitchboardProofs` | `TypeCorrect`, `NumbersMeanWhatTheyShow`, `PatientAsking`, `StickyRouting`, `KeptHandoffs` | the properties of run `switchboard` |

The arguments:

* **Sweeps.** The counting property is not inductive: it does not say that a row which is `pending`
  and unlocked has no copy outstanding. The invariant ties `copies - undone` to the row when nobody
  holds it and to the sweep's stage when somebody does; a row that says `failed` has one copy if it is
  `unheard`, else none.
* **Campaign.** The recipient's row lock carries everything. `Queue` says which jobs exist and that
  those of an open Send are for rows nobody else sees; `Lock` that one job at most holds a recipient,
  who is then pending; `Count` and `Late` count messages against the holder's mark and the committed
  row (a mark `failed` stands for a message if its answer was lost). `TwiceOnlyIfLost` follows from `Count`,
  `OneAfterOptOut` is part of `Late`. For
  `StopOverrunBounded` the bound must hold of what left since the last Stop *and* the jobs that may yet
  send together (`Overrun`): a stopped campaign starts none, and each that sends is one fewer.
  `CompletedIsSettled` rests on a verdict that was right when it was made and stays so (`Decided`):
  nobody becomes pending after a job has looked, for the one Send's request is closed by then
  (`OneAudience`), and a job's own person is decided with its commit.
* **Inbound.** `Locks` is the lock seen from both sides. It does *not* give `NobodyTalksOver`, because
  a lock may lapse and two jobs be at one customer. That rests on the contact's row: a transaction
  that has recorded its message has it until it commits (`Rows`), a person's request cannot commit
  without it, so what `Record` read of custody still stands when the answer leaves (`Custody`).
  In the code the row lock is a side effect of an upsert (`insert .. on conflict do update`): replacing
  it by a plain lookup is the mutant `ContactUnlocked`, and breaks `NobodyTalksOver`,
  `HistoryIsWhole` and the refinement of `OnceOnly`.
* **Inbound, the answers.** The same row serialises the transactions of one customer, so what `Record`
  found of its message (new, not accounted for) is so until the commit (`Turns`), and of all answers to a
  customer one at most is *out*, in an open transaction. `Accounts` is then inductive: the answers to a
  message are the forgotten ones and at most one more, which is out, accounted for, or a stop that
  was saved; one that has no row yet is out or off the record. `HistoryIsWhole` is its own invariant with it:
  when the agent reads, nothing of its customer's is out. `AnsweredOnceInCalm` needs
  the lock, and a chain of timestamps: while no lock has lapsed the transaction inside is its
  customer's latest, nothing on record is later, so its metric row covers its message (`Clocks`).
  `DoneIsRecorded` follows from what a job has gone past being on record (`Delivered`).
  The refinement sees a message's answers less the forgotten ones. Each step is one answer leaving
  (`AnswerIsALeave`) or quiet (`QuietIsAllowed`): what was accounted for stays so, and what is forgotten
  was not. A crash may forget several answers and commit nothing; a commit may account for one message and
  forget another, for which `OnceOnly`'s `Forget` allows decisions in the same step.
* **Receipts.** A status is compared with everything that was applied to it (`Sums`). The rank of a
  status makes the guarded update a maximum, which forgets the order of what it was taken over; a
  test's note is two steps, so `Working` and `OneHolder` say that a job which has read it, and is the
  only one that has, is about to advance what still stands there. `EveryReportAccounted` is kept job by
  job: a report that was ahead of a job is settled when the job goes past it. An echo is shown once
  because the job that recorded it is alone with it until its last word (`EchoWork`).
* **Follow-ups.** A claim is nobody's, a run's under way, or done (`ClaimsMatchActs`): a claim in a
  run's hands is of nothing ended yet, one that is done of exactly one thing done or impossible, so two
  overlapping runs never both act. `ReasonsAreKept` follows a claim through its run: it has its turn to
  come, is done, has its reason, or the database has failed, which is why a claim without act or reason
  costs a failure. `ToldOnce` is inductive once each sweep's findings
  are known to be of the operator it is at (`FoundByItsOperator`).
* **Transactions.** `Stack` and `TakesTurns` say how blocks nest and that one branch at a time is in
  them, and alone where it serves another business; `Saved` that every open block's savepoint is known to
  the server and holds what was there around it; `Noted` that the record never knows less than the server,
  but for the failures of the blocks' own statements. So a release or an undo never names a savepoint that
  is gone, a commit reported as done has everything and one reported undone nothing (`Held`, `Ends`); a
  COMMIT that answers nothing is whole or nothing because what it would save is one value.
* **E-mail.** `InHand` ties the worker's step to the row of the job in hand and its day;
  `LeftAsWritten` counts what left against what the row says, less what was lost; `AfterANo` and
  `AfterAStop` say that once one more has left, the worker is past sending it. `Fresh` (a Resume
  finds its job ids unused) is what makes `NobodyForgotten` inductive.
* **Switchboard.** Until a message is placed, its transaction has not touched the routing, so what it
  read is the committed row, or it read blind and a failure was paid (`Placing`). `Patience` counts:
  the menus that left are in the row, or paid for; a blind placing has already paid for the
  menu it may send. `NumbersMeanWhatTheyShow` needs that two businesses never have the same place on
  a list (`PlacesDiffer`, from the cardinalities of initial segments of the order) and that nobody who
  answers has a place beyond its end (`PlaceIsOnTheList`).

In each module the inductive invariant is a conjunction of named parts, with a lemma per part and in
it a step per action (or per group of actions that leave alone what the part speaks of).

**Only model-checked:** the liveness properties (`DueIsDecided`, `EveryoneDecided`,
`EveryDeliveryEnds`, `EveryJobEnds`, `FindingsFollowFacts`, `StandingFindingsAreActedOn`,
`EveryWorkEnds`), for which the prover has no support of fairness, and the findings. Every invariant,
action property and refinement that a run checks is a theorem.

## 6. Plan

Done, in this order: `OnceOnly`, `ScheduledMessages`, `Campaign`, `InboundPipeline`, where a mistake
reaches a customer; then `DeliveryReceipts`, `FollowUps`, `TenantTransaction` with `AllOrNothing`,
`EmailCampaign` and `Switchboard`.

| Next | Module | Abstract specification | Runs | Theorems |
|---|---|---|---|---|
| 1 | bookings and calendars: a check before an insert, the exclusion constraint, busy blocks replaced by a sync | one booking per slot | 2 bookers, 1 sync, 1 failure | no double booking |
| 2 | syncs (e-mail, portal): cursor against import | each item once | 3 items, 1 failure | no item skipped |
| 3 | social channels, as a variant of `InboundPipeline` without its lock | | as `inbound` | |
| 4 | forecasts and procedures: arithmetic against a reference | | bounded inputs | |

## 7. Not modelled

* What is said: prompts, retrieval, governance, translation, templates. Their outcome is open.
* Leads, referrals, memory, tags: written in the same transaction as the message and read by no
  modelled decision.
* The operators whose findings no automation acts on: queries of one statement each, which the sweep
  treats alike. The workflow board, and its audit rows written with what they describe.
* Who is chosen for an automatic assignment, and how presence follows from hours and breaks.
* Social channels, bookings, calendars, portal sync, forecasts: planned, see above.
* Redis failing altogether: without it the code runs without the lock, which is `Lapse` at once.
* The shutdown of the worker, rate limits, and the console.
