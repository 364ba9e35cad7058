-------------------------- MODULE InboundPipeline --------------------------
(***************************************************************************)
(* Customers' messages, from the webhook to the reply.                     *)
(*                                                                         *)
(* A webhook is one job: a batch of messages, handled one after another,   *)
(* each under the lock of its customer.  On a business's line everything   *)
(* a message causes is one database transaction: it locks the customer's   *)
(* contacts row, records the message, reads whether a person has the       *)
(* conversation, lets the agent answer and only then commits.  On a        *)
(* person's own line the message is recorded in one transaction and routed *)
(* in a second.  Next to the jobs, people reply, take conversations and    *)
(* give them back; their requests lock the same two rows.                  *)
(***************************************************************************)
EXTENDS Integers, Sequences, FiniteSets

CONSTANTS Jobs, Messages, Customers,
          Batch,         \* the messages of each job
          From,          \* the customer each message is from
          Inputs,        \* what arrives: the line and the kind of each message
          Attempts,      \* attempts of a job (queue.ts)
          MaxActs,       \* bound: times a person steps in
          MaxTroubles,   \* bound: crashes, database failures and lapsed locks
          Free, Orphan, Person

(* A line is a business's, a person's, or that of a person who left.  A    *)
(* message may be a request to stop, or one the database refuses each time.*)
Line == {"shared", "personal", "former"}
Kind == {"ordinary", "stop", "bad"}

ASSUME ConstantsAssumption ==
  /\ IsFiniteSet(Jobs) /\ Batch \in [Jobs -> Seq(Messages)] /\ \A j \in Jobs : Batch[j] # <<>>
  /\ From \in [Messages -> Customers]
  /\ Inputs \subseteq [line : Line, kind : [Messages -> Kind]]
  /\ Attempts \in Nat \ {0}
  /\ MaxActs \in Nat /\ MaxTroubles \in Nat
  /\ Free \notin Jobs /\ Orphan \notin Jobs /\ Person \notin Jobs
  /\ Free # Orphan /\ Free # Person

VARIABLES
  input,       \* what arrives
  job, attempt, pos, pc,
  tx,          \* what a job's open transaction has read and written
  lock,        \* the conversation lock in Redis: who holds each customer's
  contactRow,  \* who has each customer's contacts row locked
  convRow,     \* who has each customer's conversations row locked
  stored,      \* when each message was recorded (0: it is not)
  clock,       \* transactions begun for each customer
  lastMetric,  \* recorded_at of each conversation's latest metric row
  handoff,     \* is_human_handoff
  paused,      \* ai_paused_until lies ahead
  optedOut, routed,
  repliedAt,   \* created_at of the answer to each message (0: none recorded)
  person,      \* the request of a person whose transaction is open
  acts, troubles,
  answers,     \* history: answers that left for each message
  forgotten,   \* history: of those, the ones the database does not account for
               \* or of which no job was told
  offRecord,   \* history: messages with an answer that is not in the history
  overstayed,  \* history: jobs whose lock lapsed under them
  talkedOver   \* history: whether the agent answered over a person

queueVars   == <<job, attempt, pos>>
dataVars    == <<stored, clock, lastMetric, handoff, paused, optedOut, routed, repliedAt>>
rowVars     == <<contactRow, convRow>>
boundVars   == <<acts, troubles>>
historyVars == <<answers, forgotten, offRecord, overstayed, talkedOver>>
vars == <<input, queueVars, pc, tx, lock, rowVars, dataVars, person, boundVars, historyVars>>

(* fresh: the message is recorded by this transaction.  due: the path ends *)
(* in a metric row.  sent, reply: an answer left; its row is written.      *)
(* saw: the answers in the history the agent read.                         *)
Transaction == [start : Nat, fresh : BOOLEAN, due : BOOLEAN, sent : BOOLEAN, reply : BOOLEAN,
                stop : BOOLEAN, stale : BOOLEAN,
                custody : {"keep", "take", "release"}, saw : SUBSET Messages]

NoTx == [start |-> 0, fresh |-> FALSE, due |-> FALSE, sent |-> FALSE, reply |-> FALSE,
         stop |-> FALSE, stale |-> FALSE, custody |-> "keep", saw |-> {}]

Step == {"idle", "lock", "record", "stale", "assign", "compose", "send", "fallback", "escalate", "flag",
         "stop", "commit", "unlock", "ownStop", "route"}

TypeOK ==
  /\ input      \in Inputs
  /\ job        \in [Jobs -> {"waiting", "active", "done", "failed"}]
  /\ attempt    \in [Jobs -> 0..Attempts]
  /\ pos        \in [Jobs -> Nat \ {0}] /\ \A j \in Jobs : pos[j] <= Len(Batch[j])
  /\ pc         \in [Jobs -> Step]
  /\ tx         \in [Jobs -> Transaction]
  /\ lock       \in [Customers -> Jobs \cup {Free, Orphan}]
  /\ contactRow \in [Customers -> Jobs \cup {Free, Person}]
  /\ convRow    \in [Customers -> Jobs \cup {Free, Person}]
  /\ stored     \in [Messages -> Nat]
  /\ repliedAt  \in [Messages -> Nat]
  /\ clock      \in [Customers -> Nat]
  /\ lastMetric \in [Customers -> Nat]
  /\ handoff    \in [Customers -> BOOLEAN]
  /\ paused     \in [Customers -> BOOLEAN]
  /\ optedOut \subseteq Customers /\ routed \subseteq Messages
  /\ person     \in [Customers -> {"away", "reply", "take", "giveBack"}]
  /\ acts \in 0..MaxActs /\ troubles \in 0..MaxTroubles
  /\ answers    \in [Messages -> Nat]
  /\ forgotten  \in [Messages -> Nat]
  /\ offRecord \subseteq Messages /\ overstayed \subseteq Jobs /\ talkedOver \in BOOLEAN

(* Every webhook is on the queue, under an id made of its first message:   *)
(* when it arrived shows only in when it is taken.                         *)
Init ==
  /\ input \in Inputs
  /\ job     = [j \in Jobs |-> "waiting"]
  /\ attempt = [j \in Jobs |-> 0]
  /\ pos     = [j \in Jobs |-> 1]
  /\ pc      = [j \in Jobs |-> "idle"]
  /\ tx      = [j \in Jobs |-> NoTx]
  /\ lock       = [c \in Customers |-> Free]
  /\ contactRow = [c \in Customers |-> Free]
  /\ convRow    = [c \in Customers |-> Free]
  /\ stored     = [m \in Messages |-> 0]
  /\ clock      = [c \in Customers |-> 0]
  /\ lastMetric = [c \in Customers |-> 0]
  /\ handoff \in [Customers -> BOOLEAN]          \* a legacy handoff may stand
  /\ paused     = [c \in Customers |-> FALSE]
  /\ optedOut = {} /\ routed = {}
  /\ repliedAt  = [m \in Messages |-> 0]
  /\ person  = [c \in Customers |-> "away"]
  /\ acts = 0 /\ troubles = 0
  /\ answers   = [m \in Messages |-> 0]
  /\ forgotten = [m \in Messages |-> 0]
  /\ offRecord = {} /\ overstayed = {} /\ talkedOver = FALSE

-----------------------------------------------------------------------------
line  == input.line
Stops == {m \in Messages : input.kind[m] = "stop"}
Bad   == {m \in Messages : input.kind[m] = "bad"}

Cur(j)    == Batch[j][pos[j]]          \* the message job j is at
Cust(j)   == From[Cur(j)]              \* and the customer it is from
Inside(j) == pc[j] \notin {"idle", "lock"}

Goto(j, s)     == pc' = [pc EXCEPT ![j] = s]
Trouble        == troubles < MaxTroubles /\ troubles' = troubles + 1
ConvFree(j)    == convRow[Cust(j)] \in {Free, j}

(* MUTANT: the contact is looked up, not updated, so nobody waits for it.  *)
ContactUnlocked(c) == TRUE

(* insert .. on conflict do update waits for the contact's row.            *)
ContactFree(c) == contactRow[c] = Free

(* MUTANT: the lock is deleted whoever holds it. *)
DeleteAnyLock(j) == lock' = [lock EXCEPT ![Cust(j)] = Free]

(* RELEASE: compare and delete, for a lock that lapsed may be another's.   *)
DeleteLock(j) == lock' = [lock EXCEPT ![Cust(j)] = IF @ = j THEN Free ELSE @]

(* A transaction's end frees the rows it had locked.                       *)
Freed(rows, who) == [c \in Customers |-> IF rows[c] = who THEN Free ELSE rows[c]]
FreeRows(j)      == contactRow' = Freed(contactRow, j) /\ convRow' = Freed(convRow, j)

(* What left in job j's open transaction is unaccounted for if that ends   *)
(* in a rollback.                                                          *)
RolledBack(j) ==
  /\ forgotten' = [forgotten EXCEPT ![Cur(j)] = IF tx[j].sent THEN @ + 1 ELSE @]
  /\ offRecord' = IF tx[j].sent THEN offRecord \cup {Cur(j)} ELSE offRecord

(* The queue keeps a job that threw for its next attempt, if it has one.   *)
AfterThrow(j) == IF attempt[j] + 1 = Attempts THEN "failed" ELSE "waiting"

(* An attempt throws: rollback, the lock is released on the way out, and   *)
(* the whole batch is left to the next attempt.                            *)
Throw(j) ==
  /\ job'     = [job EXCEPT ![j] = AfterThrow(j)]
  /\ attempt' = [attempt EXCEPT ![j] = @ + 1]
  /\ pos'     = [pos EXCEPT ![j] = 1]
  /\ tx'      = [tx EXCEPT ![j] = NoTx]
  /\ overstayed' = overstayed \ {j}
  /\ Goto(j, "idle") /\ DeleteLock(j) /\ FreeRows(j) /\ RolledBack(j)
  /\ UNCHANGED <<input, dataVars, person, acts, answers, talkedOver>>

-----------------------------------------------------------------------------
(* The queue and the lock.                                                 *)

Take(j) ==
  /\ job[j] = "waiting"
  /\ job' = [job EXCEPT ![j] = "active"]
  /\ Goto(j, "lock")
  /\ UNCHANGED <<input, attempt, pos, tx, lock, rowVars, dataVars, person, boundVars, historyVars>>

(* The lock is taken and the transaction begins.                           *)
Acquire(j) ==
  /\ pc[j] = "lock" /\ lock[Cust(j)] = Free
  /\ lock'  = [lock EXCEPT ![Cust(j)] = j]
  /\ clock' = [clock EXCEPT ![Cust(j)] = @ + 1]
  /\ tx'    = [tx EXCEPT ![j] = [NoTx EXCEPT !.start = clock'[Cust(j)]]]
  /\ Goto(j, "record")
  /\ UNCHANGED <<input, queueVars, rowVars, stored, lastMetric, handoff, paused, optedOut, routed, repliedAt,
                 person, boundVars, historyVars>>

(* ConversationBusyError, after twenty seconds of waiting.                 *)
GiveUp(j) == pc[j] = "lock" /\ lock[Cust(j)] # Free /\ Throw(j) /\ UNCHANGED troubles

Unlock(j) ==
  /\ pc[j] = "unlock"
  /\ DeleteLock(j)
  /\ overstayed' = overstayed \ {j}
  /\ IF pos[j] < Len(Batch[j])
     THEN pos' = [pos EXCEPT ![j] = @ + 1] /\ Goto(j, "lock") /\ UNCHANGED job
     ELSE job' = [job EXCEPT ![j] = "done"] /\ Goto(j, "idle") /\ UNCHANGED pos
  /\ UNCHANGED <<input, attempt, tx, rowVars, dataVars, person, boundVars, answers, forgotten, offRecord, talkedOver>>

(* The TTL of a lock runs out: of one a dead worker left, or under a job.  *)
Expire(c) ==
  /\ lock[c] = Orphan
  /\ lock' = [lock EXCEPT ![c] = Free]
  /\ UNCHANGED <<input, queueVars, pc, tx, rowVars, dataVars, person, boundVars, historyVars>>

Lapse(c) ==
  /\ lock[c] \in Jobs /\ Trouble
  /\ overstayed' = overstayed \cup {lock[c]}
  /\ lock' = [lock EXCEPT ![c] = Free]
  /\ UNCHANGED <<input, queueVars, pc, tx, rowVars, dataVars, person, acts,
                 answers, forgotten, offRecord, talkedOver>>

(* MUTANT: nobody looks for the jobs of a worker that died. *)
NeverStalled(j) == job[j]

(* A stalled job runs again.                                               *)
AfterCrash(j) == IF job[j] = "active" THEN "waiting" ELSE job[j]

(* The worker process dies.  Its connections close, which rolls back; its  *)
(* locks stay in Redis; the queue finds its jobs stalled and runs them     *)
(* again, without counting an attempt.                                     *)
Crash ==
  /\ Trouble /\ \E j \in Jobs : job[j] = "active"
  /\ job'  = [j \in Jobs |-> AfterCrash(j)]
  /\ pos'  = [j \in Jobs |-> IF job[j] = "active" THEN 1 ELSE pos[j]]
  /\ pc'   = [j \in Jobs |-> "idle"]
  /\ tx'   = [j \in Jobs |-> NoTx]
  /\ lock' = [c \in Customers |-> IF lock[c] \in Jobs THEN Orphan ELSE lock[c]]
  /\ contactRow' = [c \in Customers |-> IF contactRow[c] \in Jobs THEN Free ELSE contactRow[c]]
  /\ convRow'    = [c \in Customers |-> IF convRow[c] \in Jobs THEN Free ELSE convRow[c]]
  /\ LET left(m) == {j \in Jobs : Inside(j) /\ tx[j].sent /\ Cur(j) = m}
     IN  /\ forgotten' = [m \in Messages |-> forgotten[m] + Cardinality(left(m))]
         /\ offRecord' = offRecord \cup {m \in Messages : left(m) # {}}
  /\ overstayed' = {}
  /\ UNCHANGED <<input, attempt, dataVars, person, acts, answers, talkedOver>>

-----------------------------------------------------------------------------
(* A message on a business's line: one transaction.                        *)

OnShared(j, s) == line = "shared" /\ pc[j] = s

(* MUTANT: a message seen before is not asked about. *)
NeverAccounted(j) == FALSE

(* wasAccountedFor: a metric row of the conversation since it arrived.     *)
Known(m)        == stored[m] > 0 /\ lastMetric[From[m]] >= stored[m]
AccountedFor(j) == Known(Cur(j))

(* The first step of the transaction: the contact's row is locked, the     *)
(* message recorded unless it was before, and the two flags read.          *)
Record(j) ==
  /\ OnShared(j, "record") /\ Cur(j) \notin Bad /\ ContactFree(Cust(j))
  /\ contactRow' = [contactRow EXCEPT ![Cust(j)] = j]
  /\ LET went(s, t) == Goto(j, s) /\ tx' = [tx EXCEPT ![j] = [t EXCEPT !.fresh = stored[Cur(j)] = 0]]
         c == Cust(j)
     IN  \/ AccountedFor(j) /\ went("commit", tx[j])
         \/ ~AccountedFor(j) /\ Cur(j) \in Stops /\ went("stop", tx[j])
         \/ /\ ~AccountedFor(j) /\ Cur(j) \notin Stops
            /\ \/ ~handoff[c] /\ ~paused[c] /\ went("assign", tx[j])
               \/ handoff[c] /\ went("assign", [tx[j] EXCEPT !.due = TRUE])
               \/ ~handoff[c] /\ paused[c] /\ went("commit", [tx[j] EXCEPT !.due = TRUE])
               \* no active staff: the handoff is stale
               \/ handoff[c] /\ ~paused[c] /\ went("stale", [tx[j] EXCEPT !.stale = TRUE])
  /\ UNCHANGED <<input, queueVars, lock, convRow, dataVars, person, boundVars, historyVars>>

(* The lookup fails: that reads as answered.                               *)
RecordUnsure(j) ==
  /\ OnShared(j, "record") /\ Cur(j) \notin Bad /\ ContactFree(Cust(j))
  /\ stored[Cur(j)] > 0 /\ Trouble
  /\ contactRow' = [contactRow EXCEPT ![Cust(j)] = j]
  /\ Goto(j, "commit")
  /\ UNCHANGED <<input, queueVars, tx, lock, convRow, dataVars, person, acts, historyVars>>

(* The database refuses the message, or anything up to the agent's turn    *)
(* throws: nothing has been sent, and the job fails.                       *)
RecordFails(j) == /\ pc[j] \in {"record", "compose"}
                  /\ IF pc[j] = "record" /\ Cur(j) \in Bad THEN UNCHANGED troubles ELSE Trouble
                  /\ Throw(j)

(* setConversationHandoff waits for the conversation's row.                *)
ReleaseStale(j) ==
  /\ OnShared(j, "stale") /\ ConvFree(j)
  /\ convRow' = [convRow EXCEPT ![Cust(j)] = j]
  /\ tx' = [tx EXCEPT ![j].custody = "release"]
  /\ Goto(j, "assign")
  /\ UNCHANGED <<input, queueVars, lock, contactRow, dataVars, person, boundVars, historyVars>>

(* autoAssignIfEnabled: a conversation nobody holds is given to somebody,  *)
(* which locks its row; it never throws.  Held by a person, the message    *)
(* ends here, with a metric row.                                           *)
AfterAssign(j) == IF tx[j].due THEN "commit" ELSE "compose"

Assign(j) ==
  /\ OnShared(j, "assign")
  /\ \/ ConvFree(j) /\ convRow' = [convRow EXCEPT ![Cust(j)] = j]
     \/ UNCHANGED convRow
  /\ Goto(j, AfterAssign(j))
  /\ UNCHANGED <<input, queueVars, tx, lock, contactRow, dataVars, person, boundVars, historyVars>>

(* The agent reads the history and answers; or the model fails.            *)
Compose(j) ==
  /\ OnShared(j, "compose")
  /\ \/ /\ Goto(j, "send")
        /\ tx' = [tx EXCEPT ![j].saw = {m \in Messages : repliedAt[m] > 0}]
     \/ \E s \in {"fallback", "flag"} : Goto(j, s) /\ UNCHANGED tx
  /\ UNCHANGED <<input, queueVars, lock, rowVars, dataVars, person, boundVars, historyVars>>

(* A person has the conversation, by a request that has committed, and     *)
(* this job did not find that handoff stale.                               *)
HeldByPerson(j) == paused[Cust(j)] \/ (handoff[Cust(j)] /\ ~tx[j].stale)

(* An answer leaves for the customer.                                      *)
Leaves(j) == /\ answers' = [answers EXCEPT ![Cur(j)] = @ + 1]
             /\ talkedOver' = (talkedOver \/ HeldByPerson(j))

(* The judge lets the reply stand, or has it replaced; with somebody on    *)
(* shift the replacement promises a person.                                *)
SendReply(j) ==
  /\ OnShared(j, "send")
  /\ Leaves(j)
  /\ \E s \in {"commit", "escalate"} :
       /\ Goto(j, s)
       /\ tx' = [tx EXCEPT ![j] = [@ EXCEPT !.sent = TRUE, !.reply = TRUE, !.due = TRUE]]
  /\ UNCHANGED <<input, queueVars, lock, rowVars, dataVars, person, boundVars, forgotten, offRecord, overstayed>>

(* Refused, or it failed on this side: nothing left.                       *)
SendRefused(j) ==
  /\ OnShared(j, "send")
  /\ Goto(j, "fallback")
  /\ UNCHANGED <<input, queueVars, tx, lock, rowVars, dataVars, person, boundVars, historyVars>>

(* An answer leaves and Meta's is lost: the job takes it for one that did  *)
(* not leave, and nothing is written down of it.                           *)
LeavesUnheard(j) ==
  /\ Trouble /\ Leaves(j)
  /\ forgotten' = [forgotten EXCEPT ![Cur(j)] = @ + 1]
  /\ offRecord' = offRecord \cup {Cur(j)}

SendUnheard(j) ==
  /\ OnShared(j, "send") /\ LeavesUnheard(j)
  /\ Goto(j, "fallback")
  /\ UNCHANGED <<input, queueVars, tx, lock, rowVars, dataVars, person, acts, overstayed>>

(* The reply left and a later step failed: of the database, and its row is *)
(* undone with the rest of the block, or of Redis, and its row stays.      *)
SendUnfinished(j) ==
  /\ OnShared(j, "send") /\ Trouble
  /\ Leaves(j)
  /\ \E kept \in BOOLEAN :
       /\ tx' = [tx EXCEPT ![j] = [@ EXCEPT !.sent = TRUE, !.reply = kept]]
       /\ offRecord' = IF kept THEN offRecord ELSE offRecord \cup {Cur(j)}
  /\ Goto(j, "flag")
  /\ UNCHANGED <<input, queueVars, lock, rowVars, dataVars, person, acts, forgotten, overstayed>>

(* Pauses the agent for good; waits for the conversation's row.            *)
Escalate(j) ==
  /\ OnShared(j, "escalate") /\ ConvFree(j)
  /\ convRow' = [convRow EXCEPT ![Cust(j)] = j]
  /\ tx' = [tx EXCEPT ![j].custody = "take"]
  /\ Goto(j, "commit")
  /\ UNCHANGED <<input, queueVars, lock, contactRow, dataVars, person, boundVars, historyVars>>

(* The fallback: it leaves and is recorded; or it leaves and a later step *)
(* fails, as above; or it does not leave at all.                           *)
Fallback(j) ==
  /\ OnShared(j, "fallback")
  /\ \/ /\ Leaves(j) /\ Goto(j, "flag")
        /\ tx' = [tx EXCEPT ![j] = [@ EXCEPT !.sent = TRUE, !.reply = TRUE]]
        /\ UNCHANGED <<offRecord, troubles>>
     \/ /\ Trouble
        /\ Leaves(j) /\ Goto(j, "commit")
        /\ \E kept \in BOOLEAN :
             /\ tx' = [tx EXCEPT ![j] = [@ EXCEPT !.sent = TRUE, !.reply = kept, !.due = TRUE]]
             /\ offRecord' = IF kept THEN offRecord ELSE offRecord \cup {Cur(j)}
     \/ /\ Goto(j, "commit")
        /\ tx' = [tx EXCEPT ![j].due = TRUE]
        /\ UNCHANGED <<answers, talkedOver, offRecord, troubles>>
  /\ UNCHANGED <<input, queueVars, lock, rowVars, dataVars, person, acts, forgotten, overstayed>>

FallbackUnheard(j) ==
  /\ OnShared(j, "fallback") /\ LeavesUnheard(j)
  /\ tx' = [tx EXCEPT ![j].due = TRUE]
  /\ Goto(j, "commit")
  /\ UNCHANGED <<input, queueVars, lock, rowVars, dataVars, person, acts, overstayed>>

(* flagHandoffBestEffort: pauses the agent if somebody is on shift.        *)
Flag(j) ==
  /\ OnShared(j, "flag")
  /\ \/ /\ ConvFree(j)
        /\ convRow' = [convRow EXCEPT ![Cust(j)] = j]
        /\ tx' = [tx EXCEPT ![j] = [@ EXCEPT !.due = TRUE, !.custody = "take"]]
     \/ tx' = [tx EXCEPT ![j].due = TRUE] /\ UNCHANGED convRow
  /\ Goto(j, "commit")
  /\ UNCHANGED <<input, queueVars, lock, contactRow, dataVars, person, boundVars, historyVars>>

(* MUTANT: the confirmation is sent whether or not the flag was saved. *)
ConfirmAnyway(j) == answers' = [answers EXCEPT ![Cur(j)] = @ + 1]

(* A stop that could not be saved is not confirmed.                        *)
NotConfirmed(j) == UNCHANGED answers

(* An opt-out is saved and confirmed, and leaves no metric row; one that   *)
(* could not be saved is counted as unanswered.  Whether the confirmation  *)
(* left and the job was told so changes nothing it does.                   *)
HonourStop(j) ==
  /\ OnShared(j, "stop")
  /\ \/ /\ tx' = [tx EXCEPT ![j] = [@ EXCEPT !.stop = TRUE, !.sent = TRUE]]
        /\ answers' = [answers EXCEPT ![Cur(j)] = @ + 1]
        /\ UNCHANGED troubles
     \/ /\ tx' = [tx EXCEPT ![j].stop = TRUE]      \* the confirmation does not leave
        /\ UNCHANGED <<answers, troubles>>
     \/ /\ Trouble
        /\ tx' = [tx EXCEPT ![j].due = TRUE]
        /\ NotConfirmed(j)
  /\ Goto(j, "commit")
  /\ UNCHANGED <<input, queueVars, lock, rowVars, dataVars, person, acts,
                 forgotten, offRecord, overstayed, talkedOver>>

(* Everything takes effect and the rows are free again.  A metric row that *)
(* could not be written is only logged.                                    *)
Commit(j) ==
  /\ OnShared(j, "commit")
  /\ LET c == Cust(j)
         m == Cur(j)
     IN  /\ stored'   = [stored EXCEPT ![m] = IF tx[j].fresh THEN tx[j].start ELSE @]
         /\ handoff'  = [handoff EXCEPT ![c] = IF tx[j].custody = "keep" THEN @ ELSE tx[j].custody = "take"]
         /\ optedOut' = IF tx[j].stop THEN optedOut \cup {c} ELSE optedOut
         /\ repliedAt' = [repliedAt EXCEPT ![m] = IF tx[j].reply THEN tx[j].start ELSE @]
         /\ \/ /\ lastMetric' = [lastMetric EXCEPT ![c] = IF tx[j].due /\ tx[j].start > @ THEN tx[j].start ELSE @]
               /\ UNCHANGED troubles
            \/ tx[j].due /\ Trouble /\ UNCHANGED lastMetric
         /\ forgotten' = [forgotten EXCEPT ![m] =
              IF tx[j].sent /\ m \notin Stops /\ lastMetric'[c] < stored'[m] THEN @ + 1 ELSE @]
  /\ tx' = [tx EXCEPT ![j] = NoTx]
  /\ Goto(j, "unlock") /\ FreeRows(j)
  /\ UNCHANGED <<input, queueVars, lock, clock, paused, routed, person, acts,
                 answers, offRecord, overstayed, talkedOver>>

CommitFails(j) == OnShared(j, "commit") /\ Trouble /\ Throw(j)

-----------------------------------------------------------------------------
(* A message on a person's own line: recorded in one transaction, an       *)
(* opt-out honoured in a second, the conversation routed in a third.       *)

RecordOwn(j) ==
  /\ line # "shared" /\ pc[j] = "record" /\ Cur(j) \notin Bad /\ ContactFree(Cust(j))
  /\ IF stored[Cur(j)] > 0
     THEN Goto(j, "unlock") /\ UNCHANGED stored
     ELSE /\ stored' = [stored EXCEPT ![Cur(j)] = tx[j].start]
          /\ Goto(j, IF Cur(j) \in Stops THEN "ownStop" ELSE "route")
  /\ tx' = [tx EXCEPT ![j] = NoTx]
  /\ UNCHANGED <<input, queueVars, lock, rowVars, clock, lastMetric, handoff, paused, optedOut, routed, repliedAt,
                 person, boundVars, historyVars>>

HonourOwnStop(j) ==
  /\ pc[j] = "ownStop" /\ ContactFree(Cust(j))
  /\ \/ optedOut' = optedOut \cup {Cust(j)} /\ UNCHANGED troubles /\
           (UNCHANGED answers \/ answers' = [answers EXCEPT ![Cur(j)] = @ + 1])
     \/ Trouble /\ UNCHANGED <<optedOut, answers>>
  /\ Goto(j, "route")
  /\ UNCHANGED <<input, queueVars, tx, lock, rowVars, stored, clock, lastMetric, handoff, paused, routed, repliedAt,
                 person, acts, forgotten, offRecord, overstayed, talkedOver>>

RouteOwn(j) ==
  /\ pc[j] = "route" /\ ContactFree(Cust(j)) /\ convRow[Cust(j)] = Free
  /\ routed'  = routed \cup {Cur(j)}
  /\ handoff' = [handoff EXCEPT ![Cust(j)] = @ \/ line = "personal"]
  /\ Goto(j, "unlock")
  /\ UNCHANGED <<input, queueVars, tx, lock, rowVars, stored, clock, lastMetric, paused, optedOut, repliedAt,
                 person, boundVars, historyVars>>

RouteFails(j) == pc[j] = "route" /\ Trouble /\ Throw(j)

-----------------------------------------------------------------------------
(* People.  A reply locks the contact and then the conversation; taking a  *)
(* conversation or giving it back locks them the other way round, and the  *)
(* conversation only if that changes it.  Either request pauses the agent  *)
(* for the contact or resumes it, and commits once it has both rows.       *)

Wants(act)     == act \in {"reply", "take"}     \* the person wants the conversation
Changes(c,act) == handoff[c] # Wants(act)

PersonStarts(c, act) ==
  /\ person[c] = "away" /\ acts < MaxActs
  /\ IF act = "reply" THEN contactRow[c] = Free /\ contactRow' = [contactRow EXCEPT ![c] = Person] /\ UNCHANGED convRow
     ELSE /\ Changes(c, act) => convRow[c] = Free
          /\ convRow' = [convRow EXCEPT ![c] = IF Changes(c, act) THEN Person ELSE @]
          /\ UNCHANGED contactRow
  /\ person' = [person EXCEPT ![c] = act]
  /\ acts' = acts + 1
  /\ UNCHANGED <<input, queueVars, pc, tx, lock, dataVars, troubles, historyVars>>

PersonCommits(c) ==
  /\ person[c] # "away"
  /\ IF person[c] = "reply" THEN Changes(c, "reply") => convRow[c] = Free ELSE contactRow[c] = Free
  /\ IF convRow[c] = Person \/ person[c] = "reply" THEN handoff' = [handoff EXCEPT ![c] = Wants(person[c])]
                                                   ELSE UNCHANGED handoff
  /\ paused'  = [paused EXCEPT ![c] = Wants(person[c])]
  /\ person'  = [person EXCEPT ![c] = "away"]
  /\ contactRow' = [contactRow EXCEPT ![c] = IF @ = Person THEN Free ELSE @]
  /\ convRow'    = [convRow EXCEPT ![c] = IF @ = Person THEN Free ELSE @]
  /\ UNCHANGED <<input, queueVars, pc, tx, lock, stored, clock, lastMetric, optedOut, routed, repliedAt,
                 boundVars, historyVars>>

(* The 24 hours of a pause are over; the handoff stands.                   *)
PauseEnds(c) ==
  /\ paused[c]
  /\ paused' = [paused EXCEPT ![c] = FALSE]
  /\ UNCHANGED <<input, queueVars, pc, tx, lock, rowVars, stored, clock, lastMetric, handoff, optedOut, routed,
                 repliedAt, person, boundVars, historyVars>>

(* A job has the contact and wants the conversation, a person has that and *)
(* wants the contact: Postgres refuses one of the two statements.          *)
Deadlocked(j) == /\ pc[j] \in {"stale", "assign", "escalate", "flag"}
                 /\ contactRow[Cust(j)] = j /\ convRow[Cust(j)] = Person

(* Refused, the job goes on where the failure is caught: a reply's row is  *)
(* undone with its block, a handoff is merely logged.                      *)
JobIsVictim(j) ==
  /\ Deadlocked(j)
  /\ \/ pc[j] = "stale" /\ Goto(j, "assign") /\ UNCHANGED <<tx, offRecord>>
     \/ pc[j] = "assign" /\ Goto(j, AfterAssign(j)) /\ UNCHANGED <<tx, offRecord>>
     \/ /\ pc[j] = "escalate" /\ Goto(j, "flag")
        /\ tx' = [tx EXCEPT ![j].reply = FALSE]
        /\ offRecord' = offRecord \cup {Cur(j)}
     \/ /\ pc[j] = "flag" /\ Goto(j, "commit")
        /\ tx' = [tx EXCEPT ![j].due = TRUE]
        /\ UNCHANGED offRecord
  /\ UNCHANGED <<input, queueVars, lock, rowVars, dataVars, person, boundVars, answers, forgotten, overstayed, talkedOver>>

PersonIsVictim(c) ==
  /\ \E j \in Jobs : Deadlocked(j) /\ Cust(j) = c
  /\ person'  = [person EXCEPT ![c] = "away"]
  /\ convRow' = [convRow EXCEPT ![c] = Free]
  /\ UNCHANGED <<input, queueVars, pc, tx, lock, contactRow, dataVars, boundVars, historyVars>>

-----------------------------------------------------------------------------
Handle(j) ==
  \/ Record(j) \/ RecordUnsure(j) \/ ReleaseStale(j) \/ Assign(j) \/ Compose(j) \/ SendReply(j)
  \/ SendRefused(j) \/ SendUnheard(j) \/ SendUnfinished(j) \/ Escalate(j)
  \/ Fallback(j) \/ FallbackUnheard(j) \/ Flag(j) \/ HonourStop(j) \/ Commit(j)
  \/ RecordOwn(j) \/ HonourOwnStop(j) \/ RouteOwn(j)

Break(j) == RecordFails(j) \/ CommitFails(j) \/ RouteFails(j)

JobNext(j) == Take(j) \/ Acquire(j) \/ GiveUp(j) \/ Unlock(j) \/ Handle(j) \/ Break(j) \/ JobIsVictim(j)

Next ==
  \/ \E j \in Jobs : JobNext(j)
  \/ \E c \in Customers : \/ Expire(c) \/ Lapse(c) \/ PauseEnds(c)
                          \/ \E act \in {"reply", "take", "giveBack"} : PersonStarts(c, act)
                          \/ PersonCommits(c) \/ PersonIsVictim(c)
  \/ Crash

Spec == Init /\ [][Next]_vars

(* The worker runs its jobs (ten at once, so none waits for another but at *)
(* its customer's lock), Redis expires keys, a request ends.               *)
Fairness == /\ \A j \in Jobs : WF_vars(JobNext(j))
            /\ \A c \in Customers : WF_vars(Expire(c)) /\ WF_vars(PersonCommits(c) \/ PersonIsVictim(c))

FairSpec == Spec /\ Fairness

-----------------------------------------------------------------------------
(* Properties.                                                             *)

(* Whoever is being answered under a lock that has not lapsed holds it: a  *)
(* late finisher's release never frees the lock of the job that came after *)
(* (conversation-lock.ts, RELEASE).                                        *)
HolderIsInside ==
  \A j \in Jobs : (Inside(j) /\ j \notin overstayed) <=> (Inside(j) /\ lock[Cust(j)] = j)

(* The agent never answers a customer whom a person has taken, however the *)
(* person's request and the jobs interleave (processor.ts 1019-1070).      *)
NobodyTalksOver == ~talkedOver

(* A message is answered once; each further answer had an earlier one that *)
(* was lost with a rollback, is not accounted for by a metric row or of    *)
(* which Meta's answer was lost: not with redeliveries, retries, failures  *)
(* after the send or lapsed locks alone (processor.ts 826-886).            *)
AnsweredOnce == \A m \in Messages \ Stops : answers[m] <= 1 + forgotten[m]

(* While nothing crashes, fails or lapses, no answer is lost either: a     *)
(* message that comes again, in whatever job, is not answered again.       *)
AnsweredOnceInCalm == troubles = 0 => \A m \in Messages \ Stops : answers[m] <= 1

(* Before the agent answers, it has every earlier answer to that customer  *)
(* in its history, but those whose row was lost (conversation-lock.ts:     *)
(* the second job loads history after the first reply is written).         *)
HistoryIsWhole ==
  \A j \in Jobs : pc[j] = "send" =>
    \A m \in Messages \ (Stops \cup offRecord \cup {Cur(j)}) :
      From[m] = Cust(j) /\ answers[m] > 0 => m \in tx[j].saw

(* A customer told that a stop was honoured is opted out, unless what told *)
(* them was rolled back (processor.ts: confirming an opt-out that did not  *)
(* save would be a lie).                                                   *)
ConfirmedStopsAreKept ==
  \A m \in Stops :
    (answers[m] > forgotten[m] /\ \A j \in Jobs : ~(Inside(j) /\ Cur(j) = m)) => From[m] \in optedOut

(* A webhook that is done has every message of its batch on record: no     *)
(* retry, crash or skipped duplicate leaves one of them out (queue.ts: a   *)
(* job that fails is retried whole).                                       *)
DoneIsRecorded ==
  \A j \in Jobs : job[j] = "done" => \A i \in 1..Len(Batch[j]) : stored[Batch[j][i]] > 0

(* An answer as the promise of OnceOnly sees it: of those that left, the   *)
(* one that is not forgotten (one that no job was told of is forgotten at  *)
(* once), and decided once a metric row accounts for its message.  That a  *)
(* stop was honoured is not for the agent to answer.                       *)
Left(m) == IF m \in Stops THEN 0 ELSE answers[m] - forgotten[m]
Seen(m) == IF m \in Stops \/ ~Known(m) THEN "open" ELSE IF Left(m) = 1 THEN "sent" ELSE "failed"

Once == INSTANCE OnceOnly WITH MayForget <- MaxTroubles > 0,
                               unheard   <- {},
                               left      <- [m \in Messages |-> Left(m)],
                               decision  <- [m \in Messages |-> Seen(m)]

(* The pipeline keeps the promise of OnceOnly for each message: it has one *)
(* answer at most that is not forgotten, it is not answered any more once  *)
(* it is accounted for, and what is accounted for is never forgotten.  A   *)
(* reply of which Meta's answer was lost is one the pipeline forgets: the  *)
(* customer may have it and the fallback too.                              *)
ImplementsOnceOnly == Once!Spec

(* Everything delivered is recorded, or its job ends as failed: no lock,   *)
(* deadlock, crash or row another holds keeps a customer waiting for ever. *)
EveryDeliveryEnds ==
  <>(\A j \in Jobs : \/ job[j] = "failed"
                     \/ job[j] = "done" /\ \A i \in 1..Len(Batch[j]) : stored[Batch[j][i]] > 0)

=============================================================================
