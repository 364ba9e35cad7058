----------------------- MODULE InboundPipelineProofs -----------------------
(***************************************************************************)
(* For any number of jobs, messages, customers, people and troubles: the   *)
(* typing of the pipeline, that a lock is held by the job it protects,     *)
(* that the agent does not answer over a person, that each answer is       *)
(* accounted for and none is repeated while nothing goes wrong, that the   *)
(* agent reads every earlier one, that a stop which was confirmed is kept, *)
(* that the pipeline implements OnceOnly, and that a webhook which is done *)
(* left no message out.                                                    *)
(*                                                                         *)
(* All but the first two need more than the lock, which may lapse: a       *)
(* transaction has its customer's contacts row from the record to the      *)
(* commit (Rows).  Whoever takes the conversation needs that row too, so   *)
(* what the record read of custody stands until the answer has left        *)
(* (Custody).  And so does every other transaction at the customer: what   *)
(* the record found of the message stands until the commit (Turns), and at *)
(* most one answer to the customer is out at a time (Accounts).  Only that *)
(* a commit's metric row covers its message rests on the lock: the latest  *)
(* transaction at a customer is the one inside, unless it lapsed (Clocks). *)
(***************************************************************************)
EXTENDS InboundPipeline, FiniteSetTheorems, TLAPS

(* A job is at a step while it is active, and has an attempt left until it *)
(* has failed.                                                             *)
Queue ==
  /\ \A j \in Jobs : pc[j] # "idle" => job[j] = "active"
  /\ \A j \in Jobs : job[j] \in {"waiting", "active"} => attempt[j] < Attempts

(* A lock is its holder's, and a job inside has its lock or overstayed it. *)
Locks ==
  /\ \A c \in Customers : lock[c] \in Jobs =>
       Inside(lock[c]) /\ Cust(lock[c]) = c /\ lock[c] \notin overstayed
  /\ \A j \in Jobs : Inside(j) /\ j \notin overstayed => lock[Cust(j)] = j
  /\ \A j \in overstayed : Inside(j)

Recorded == {"stale", "assign", "compose", "send", "fallback", "escalate", "flag", "stop", "commit"}

(* A transaction that has recorded its message has the contact's row, as   *)
(* the request of a person who replies has it.                             *)
Rows ==
  /\ \A j \in Jobs : pc[j] \in Recorded => contactRow[Cust(j)] = j
  /\ \A c \in Customers : person[c] = "reply" => contactRow[c] = Person
  /\ \A j \in Jobs : pc[j] \in Recorded => line = "shared"
  /\ \A j \in Jobs : pc[j] \in {"ownStop", "route"} => line # "shared"

(* The job may still answer its message.                                   *)
Answering(j) == pc[j] \in {"stale", "compose", "send", "fallback"} \/ (pc[j] = "assign" /\ ~tx[j].due)

Custody ==
  /\ \A j \in Jobs : pc[j] = "stale" => tx[j].stale
  /\ \A j \in Jobs : Answering(j) => ~HeldByPerson(j)
  /\ ~talkedOver

IInv == TypeOK /\ Queue /\ Locks /\ Rows /\ Custody

LEMMA CurFacts ==
  ASSUME TypeOK, NEW j \in Jobs
  PROVE  Cur(j) \in Messages /\ Cust(j) \in Customers
<1>1. Batch[j] \in Seq(Messages) /\ pos[j] \in 1..Len(Batch[j])
  BY ConstantsAssumption DEF TypeOK
<1>2. Cur(j) \in Messages
  BY <1>1 DEF Cur
<1> QED
  BY <1>2, ConstantsAssumption DEF Cust

LEMMA BatchFacts == \A j \in Jobs : Len(Batch[j]) \in Nat \ {0}
<1> SUFFICES ASSUME NEW j \in Jobs PROVE Len(Batch[j]) \in Nat \ {0}
  OBVIOUS
<1>1. Batch[j] \in Seq(Messages) /\ Batch[j] # <<>>
  BY ConstantsAssumption
<1> QED
  BY <1>1

LEMMA NoTxType == NoTx \in Transaction
BY DEF NoTx, Transaction

LEMMA InitIInv == Init => IInv
<1> SUFFICES ASSUME Init PROVE IInv
  OBVIOUS
<1> USE ConstantsAssumption, BatchFacts, NoTxType DEF Init
<1>1. TypeOK
  <2>1. pos \in [Jobs -> Nat \ {0}] /\ \A j \in Jobs : pos[j] <= Len(Batch[j])
    OBVIOUS
  <2>2. acts \in 0..MaxActs /\ troubles \in 0..MaxTroubles /\ attempt \in [Jobs -> 0..Attempts]
    OBVIOUS
  <2>3. stored \in [Messages -> Nat] /\ repliedAt \in [Messages -> Nat] /\ answers \in [Messages -> Nat]
        /\ forgotten \in [Messages -> Nat] /\ clock \in [Customers -> Nat] /\ lastMetric \in [Customers -> Nat]
    OBVIOUS
  <2> QED
    BY <2>1, <2>2, <2>3 DEF TypeOK, Step
<1>2. Queue /\ Locks /\ Rows /\ Custody
  BY DEF Queue, Locks, Rows, Custody, Recorded, Answering, Inside
<1> QED
  BY <1>1, <1>2 DEF IInv

(* A job that throws had an attempt left, and the queue keeps it only if   *)
(* it has another.                                                         *)
LEMMA ThrowType ==
  ASSUME TypeOK, Queue, NEW j \in Jobs, pc[j] # "idle", Throw(j), troubles' \in 0..MaxTroubles
  PROVE  TypeOK'
<1> USE ConstantsAssumption, CurFacts DEF Throw
<1>1. attempt' \in [Jobs -> 0..Attempts] /\ job' \in [Jobs -> {"waiting", "active", "done", "failed"}]
  BY DEF TypeOK, Queue, AfterThrow
<1>2. lock' \in [Customers -> Jobs \cup {Free, Orphan}]
  BY DEF TypeOK, DeleteLock
<1>3. contactRow' \in [Customers -> Jobs \cup {Free, Person}] /\ convRow' \in [Customers -> Jobs \cup {Free, Person}]
  BY DEF TypeOK, FreeRows, Freed
<1>4. forgotten' \in [Messages -> Nat] /\ offRecord' \subseteq Messages
  <2>1. Cur(j) \in Messages /\ forgotten \in [Messages -> Nat] /\ offRecord \subseteq Messages
    BY DEF TypeOK
  <2> QED
    BY <2>1 DEF RolledBack
<1>5. pos' \in [Jobs -> Nat \ {0}] /\ \A i \in Jobs : pos'[i] <= Len(Batch[i])
  <2>1. pos \in [Jobs -> Nat \ {0}] /\ \A i \in Jobs : pos[i] <= Len(Batch[i])
    BY DEF TypeOK
  <2>2. pos' = [pos EXCEPT ![j] = 1]
    OBVIOUS
  <2>3. ASSUME NEW i \in Jobs PROVE pos'[i] <= Len(Batch[i])
    BY <2>1, <2>2, BatchFacts
  <2> QED
    BY <2>1, <2>2, <2>3
<1>6. pc' \in [Jobs -> Step]
  BY DEF TypeOK, Goto, Step
<1>7. tx' \in [Jobs -> Transaction]
  BY NoTxType DEF TypeOK
<1>8. overstayed' \subseteq Jobs
  BY DEF TypeOK
<1> QED
  BY <1>1, <1>2, <1>3, <1>4, <1>5, <1>6, <1>7, <1>8 DEF TypeOK, dataVars

(* Typing. *)
LEMMA TypeStep == TypeOK /\ Queue /\ [Next]_vars => TypeOK'
<1> SUFFICES ASSUME TypeOK, Queue, [Next]_vars PROVE TypeOK'
  OBVIOUS
<1> USE DEF queueVars, dataVars, rowVars, boundVars, historyVars
<1>a. \A j \in Jobs : Cur(j) \in Messages /\ Cust(j) \in Customers /\ Len(Batch[j]) \in Nat \ {0}
  BY CurFacts, BatchFacts
<1>b. MaxActs \in Nat /\ MaxTroubles \in Nat
  BY ConstantsAssumption
<1>d. \A j \in Jobs : tx[j] \in Transaction
  BY DEF TypeOK
<1>1. ASSUME NEW j \in Jobs, Take(j) PROVE TypeOK'
  <2>1. job' \in [Jobs -> {"waiting", "active", "done", "failed"}]
    BY <1>1, <1>a DEF TypeOK, Take
  <2>2. pc' \in [Jobs -> Step]
    BY <1>1, <1>a DEF TypeOK, Take, Goto, Step
  <2> QED
    BY <1>1, <2>1, <2>2 DEF TypeOK, Take
<1>2. ASSUME NEW j \in Jobs, Acquire(j) PROVE TypeOK'
  <2>1. lock' \in [Customers -> Jobs \cup {Free, Orphan}]
    BY <1>2, <1>a DEF TypeOK, Acquire
  <2>2. clock' \in [Customers -> Nat]
    BY <1>2, <1>a DEF TypeOK, Acquire
  <2>3. tx' \in [Jobs -> Transaction]
    <3>1. clock'[Cust(j)] \in Nat
      BY <1>2, <1>a, <2>2
    <3>2. [NoTx EXCEPT !.start = clock'[Cust(j)]] \in Transaction
      BY <3>1 DEF NoTx, Transaction
    <3> QED
      BY <1>2, <3>2 DEF TypeOK, Acquire
  <2>4. pc' \in [Jobs -> Step]
    BY <1>2, <1>a DEF TypeOK, Acquire, Goto, Step
  <2> QED
    BY <1>2, <2>1, <2>2, <2>3, <2>4 DEF TypeOK, Acquire
<1>3. ASSUME NEW j \in Jobs, GiveUp(j) PROVE TypeOK'
  <2>1. pc[j] # "idle" /\ Throw(j) /\ troubles' \in 0..MaxTroubles
    BY <1>3, <1>b DEF TypeOK, GiveUp
  <2> QED
    BY <2>1, ThrowType
<1>4. ASSUME NEW j \in Jobs, Unlock(j) PROVE TypeOK'
  <2>1. lock' \in [Customers -> Jobs \cup {Free, Orphan}]
    BY <1>4, <1>a DEF TypeOK, Unlock, DeleteLock
  <2>2. overstayed' \subseteq Jobs
    BY <1>4, <1>a DEF TypeOK, Unlock
  <2>3. pos' \in [Jobs -> Nat \ {0}] /\ \A i \in Jobs : pos'[i] <= Len(Batch[i])
    <3>1. UNCHANGED pos \/ (pos[j] < Len(Batch[j]) /\ pos' = [pos EXCEPT ![j] = pos[j] + 1])
      BY <1>4 DEF Unlock
    <3>2. pos \in [Jobs -> Nat \ {0}] /\ \A i \in Jobs : pos[i] <= Len(Batch[i])
      BY DEF TypeOK
    <3> QED
      BY <3>1, <3>2, <1>a
  <2>4. job' \in [Jobs -> {"waiting", "active", "done", "failed"}]
    BY <1>4, <1>a DEF TypeOK, Unlock
  <2>5. pc' \in [Jobs -> Step]
    <3>1. Goto(j, "lock") \/ Goto(j, "idle")
      BY <1>4 DEF Unlock
    <3> QED
      BY <3>1, <1>a DEF TypeOK, Goto, Step
  <2> QED
    BY <1>4, <2>1, <2>2, <2>3, <2>4, <2>5 DEF TypeOK, Unlock
<1>5. ASSUME NEW j \in Jobs, Record(j) PROVE TypeOK'
  <2>1. contactRow' \in [Customers -> Jobs \cup {Free, Person}]
    BY <1>5, <1>a DEF TypeOK, Record
  <2>2. tx' \in [Jobs -> Transaction]
    <3>1. [tx[j] EXCEPT !.fresh = (stored[Cur(j)] = 0)] \in Transaction
      BY <1>d DEF Transaction
    <3>2. [[tx[j] EXCEPT !.due = TRUE] EXCEPT !.fresh = (stored[Cur(j)] = 0)] \in Transaction
      BY <1>d DEF Transaction
    <3>3. [[tx[j] EXCEPT !.stale = TRUE] EXCEPT !.fresh = (stored[Cur(j)] = 0)] \in Transaction
      BY <1>d DEF Transaction
    <3> QED
      BY <1>5, <3>1, <3>2, <3>3, ZenonT(60) DEF TypeOK, Record
  <2>3. pc' \in [Jobs -> Step]
    BY <1>5, <1>a DEF TypeOK, Record, Goto, Step
  <2> QED
    BY <1>5, <2>1, <2>2, <2>3 DEF TypeOK, Record
<1>6. ASSUME NEW j \in Jobs, RecordUnsure(j) PROVE TypeOK'
  <2>1. contactRow' \in [Customers -> Jobs \cup {Free, Person}]
    BY <1>6, <1>a DEF TypeOK, RecordUnsure
  <2>2. troubles' \in 0..MaxTroubles
    BY <1>6, <1>b DEF TypeOK, RecordUnsure, Trouble
  <2>3. pc' \in [Jobs -> Step]
    BY <1>6, <1>a DEF TypeOK, RecordUnsure, Goto, Step
  <2> QED
    BY <1>6, <2>1, <2>2, <2>3 DEF TypeOK, RecordUnsure
<1>7. ASSUME NEW j \in Jobs, RecordFails(j) PROVE TypeOK'
  <2>1. pc[j] # "idle" /\ Throw(j) /\ troubles' \in 0..MaxTroubles
    BY <1>7, <1>b DEF TypeOK, RecordFails, Trouble
  <2> QED
    BY <2>1, ThrowType
<1>8. ASSUME NEW j \in Jobs, ReleaseStale(j) PROVE TypeOK'
  <2>1. convRow' \in [Customers -> Jobs \cup {Free, Person}]
    BY <1>8, <1>a DEF TypeOK, ReleaseStale
  <2>2. tx' \in [Jobs -> Transaction]
    <3>1. [tx[j] EXCEPT !.custody = "release"] \in Transaction
      BY <1>d DEF Transaction
    <3> QED
      BY <1>8, <3>1 DEF TypeOK, ReleaseStale
  <2>3. pc' \in [Jobs -> Step]
    BY <1>8, <1>a DEF TypeOK, ReleaseStale, Goto, Step
  <2> QED
    BY <1>8, <2>1, <2>2, <2>3 DEF TypeOK, ReleaseStale
<1>9. ASSUME NEW j \in Jobs, Assign(j) PROVE TypeOK'
  <2>1. convRow' \in [Customers -> Jobs \cup {Free, Person}]
    BY <1>9, <1>a DEF TypeOK, Assign
  <2>2. pc' \in [Jobs -> Step]
    BY <1>9, <1>a DEF TypeOK, Assign, Goto, Step, AfterAssign
  <2> QED
    BY <1>9, <2>1, <2>2 DEF TypeOK, Assign
<1>10. ASSUME NEW j \in Jobs, Compose(j) PROVE TypeOK'
  <2>1. tx' \in [Jobs -> Transaction]
    <3>1. CASE UNCHANGED tx
      BY <3>1 DEF TypeOK
    <3>2. CASE tx' = [tx EXCEPT ![j].saw = {m \in Messages : repliedAt[m] > 0}]
      <4>1. {m \in Messages : repliedAt[m] > 0} \in SUBSET Messages
        OBVIOUS
      <4>2. [tx[j] EXCEPT !.saw = {m \in Messages : repliedAt[m] > 0}] \in Transaction
        BY <4>1, <1>d DEF Transaction
      <4> QED
        BY <3>2, <4>2 DEF TypeOK
    <3> QED
      BY <1>10, <3>1, <3>2 DEF Compose
  <2>2. pc' \in [Jobs -> Step]
    BY <1>10, <1>a DEF TypeOK, Compose, Goto, Step
  <2> QED
    BY <1>10, <2>1, <2>2 DEF TypeOK, Compose
<1>11. ASSUME NEW j \in Jobs, SendReply(j) PROVE TypeOK'
  <2>1. answers' \in [Messages -> Nat]
    BY <1>11, <1>a DEF TypeOK, SendReply, Leaves, NotConfirmed
  <2>2. talkedOver' \in BOOLEAN
    BY <1>11, <1>a DEF TypeOK, SendReply, Leaves, HeldByPerson
  <2>3. tx' \in [Jobs -> Transaction]
    <3>1. [tx[j] EXCEPT !.sent = TRUE, !.reply = TRUE, !.due = TRUE] \in Transaction
      BY <1>d DEF Transaction
    <3> QED
      BY <1>11, <3>1 DEF TypeOK, SendReply
  <2>4. pc' \in [Jobs -> Step]
    BY <1>11, <1>a DEF TypeOK, SendReply, Goto, Step
  <2> QED
    BY <1>11, <2>1, <2>2, <2>3, <2>4 DEF TypeOK, SendReply
<1>12. ASSUME NEW j \in Jobs, SendRefused(j) PROVE TypeOK'
  <2>1. pc' \in [Jobs -> Step]
    BY <1>12, <1>a DEF TypeOK, SendRefused, Goto, Step
  <2> QED
    BY <1>12, <2>1 DEF TypeOK, SendRefused
<1>12a. ASSUME NEW j \in Jobs, SendUnheard(j) \/ FallbackUnheard(j) PROVE TypeOK'
  <2>1. answers' \in [Messages -> Nat] /\ forgotten' \in [Messages -> Nat] /\ offRecord' \subseteq Messages
    <3>1. /\ answers' = [answers EXCEPT ![Cur(j)] = answers[Cur(j)] + 1]
          /\ forgotten' = [forgotten EXCEPT ![Cur(j)] = forgotten[Cur(j)] + 1]
          /\ offRecord' = offRecord \cup {Cur(j)}
      BY <1>12a DEF SendUnheard, FallbackUnheard, LeavesUnheard, Leaves
    <3>2. /\ Cur(j) \in Messages /\ answers \in [Messages -> Nat] /\ forgotten \in [Messages -> Nat]
          /\ offRecord \subseteq Messages
      BY <1>a DEF TypeOK
    <3> QED
      BY <3>1, <3>2
  <2>2. talkedOver' \in BOOLEAN /\ troubles' \in 0..MaxTroubles
    <3>1. talkedOver' = (talkedOver \/ HeldByPerson(j)) /\ Trouble
      BY <1>12a DEF SendUnheard, FallbackUnheard, LeavesUnheard, Leaves
    <3>2. HeldByPerson(j) \in BOOLEAN /\ talkedOver \in BOOLEAN
      BY <1>a DEF TypeOK, HeldByPerson
    <3>3. talkedOver' \in BOOLEAN
      BY <3>1, <3>2, Zenon
    <3>4. troubles' \in 0..MaxTroubles
      BY <3>1, <1>b DEF TypeOK, Trouble
    <3> QED
      BY <3>3, <3>4
  <2>3. tx' \in [Jobs -> Transaction]
    <3>1. [tx[j] EXCEPT !.due = TRUE] \in Transaction
      BY <1>d DEF Transaction
    <3> QED
      BY <1>12a, <3>1 DEF TypeOK, SendUnheard, FallbackUnheard
  <2>4. pc' \in [Jobs -> Step]
    BY <1>12a, <1>a DEF TypeOK, SendUnheard, FallbackUnheard, Goto, Step
  <2> QED
    BY <1>12a, <2>1, <2>2, <2>3, <2>4 DEF TypeOK, SendUnheard, FallbackUnheard
<1>13. ASSUME NEW j \in Jobs, SendUnfinished(j) PROVE TypeOK'
  <2>1. answers' \in [Messages -> Nat]
    BY <1>13, <1>a DEF TypeOK, SendUnfinished, Leaves, NotConfirmed
  <2>2. talkedOver' \in BOOLEAN
    BY <1>13, <1>a DEF TypeOK, SendUnfinished, Leaves, HeldByPerson
  <2>3. tx' \in [Jobs -> Transaction]
    <3>1. \/ tx' = [tx EXCEPT ![j] = [tx[j] EXCEPT !.sent = TRUE, !.reply = TRUE]]
          \/ tx' = [tx EXCEPT ![j] = [tx[j] EXCEPT !.sent = TRUE, !.reply = FALSE]]
      BY <1>13 DEF SendUnfinished
    <3>2. [tx[j] EXCEPT !.sent = TRUE, !.reply = TRUE] \in Transaction
      BY <1>d DEF Transaction
    <3>3. [tx[j] EXCEPT !.sent = TRUE, !.reply = FALSE] \in Transaction
      BY <1>d DEF Transaction
    <3> QED
      BY <3>1, <3>2, <3>3 DEF TypeOK
  <2>4. offRecord' \subseteq Messages
    BY <1>13, <1>a DEF TypeOK, SendUnfinished
  <2>5. troubles' \in 0..MaxTroubles
    BY <1>13, <1>b DEF TypeOK, SendUnfinished, Trouble
  <2>6. pc' \in [Jobs -> Step]
    BY <1>13, <1>a DEF TypeOK, SendUnfinished, Goto, Step
  <2> QED
    BY <1>13, <2>1, <2>2, <2>3, <2>4, <2>5, <2>6 DEF TypeOK, SendUnfinished
<1>14. ASSUME NEW j \in Jobs, Escalate(j) PROVE TypeOK'
  <2>1. convRow' \in [Customers -> Jobs \cup {Free, Person}]
    BY <1>14, <1>a DEF TypeOK, Escalate
  <2>2. tx' \in [Jobs -> Transaction]
    <3>1. [tx[j] EXCEPT !.custody = "take"] \in Transaction
      BY <1>d DEF Transaction
    <3> QED
      BY <1>14, <3>1 DEF TypeOK, Escalate
  <2>3. pc' \in [Jobs -> Step]
    BY <1>14, <1>a DEF TypeOK, Escalate, Goto, Step
  <2> QED
    BY <1>14, <2>1, <2>2, <2>3 DEF TypeOK, Escalate
<1>15. ASSUME NEW j \in Jobs, Fallback(j) PROVE TypeOK'
  <2>1. answers' \in [Messages -> Nat]
    <3>1. UNCHANGED answers \/ answers' = [answers EXCEPT ![Cur(j)] = answers[Cur(j)] + 1]
      BY <1>15 DEF Fallback, Leaves
    <3>2. answers \in [Messages -> Nat] /\ Cur(j) \in Messages
      BY <1>a DEF TypeOK
    <3> QED
      BY <3>1, <3>2
  <2>2. talkedOver' \in BOOLEAN
    BY <1>15, <1>a DEF TypeOK, Fallback, Leaves, HeldByPerson
  <2>3. tx' \in [Jobs -> Transaction]
    <3>1. \/ tx' = [tx EXCEPT ![j] = [tx[j] EXCEPT !.sent = TRUE, !.reply = TRUE]]
          \/ tx' = [tx EXCEPT ![j] = [tx[j] EXCEPT !.sent = TRUE, !.reply = TRUE, !.due = TRUE]]
          \/ tx' = [tx EXCEPT ![j] = [tx[j] EXCEPT !.sent = TRUE, !.reply = FALSE, !.due = TRUE]]
          \/ tx' = [tx EXCEPT ![j] = [tx[j] EXCEPT !.due = TRUE]]
      BY <1>15 DEF Fallback
    <3>2. [tx[j] EXCEPT !.sent = TRUE, !.reply = TRUE] \in Transaction
      BY <1>d DEF Transaction
    <3>3. [tx[j] EXCEPT !.sent = TRUE, !.reply = TRUE, !.due = TRUE] \in Transaction
      BY <1>d DEF Transaction
    <3>4. [tx[j] EXCEPT !.sent = TRUE, !.reply = FALSE, !.due = TRUE] \in Transaction
      BY <1>d DEF Transaction
    <3>5. [tx[j] EXCEPT !.due = TRUE] \in Transaction
      BY <1>d DEF Transaction
    <3> QED
      BY <3>1, <3>2, <3>3, <3>4, <3>5 DEF TypeOK
  <2>4. offRecord' \subseteq Messages
    <3>1. offRecord' = offRecord \/ offRecord' = offRecord \cup {Cur(j)}
      BY <1>15 DEF Fallback
    <3> QED
      BY <3>1, <1>a DEF TypeOK
  <2>5. troubles' \in 0..MaxTroubles
    <3>1. Trouble \/ UNCHANGED troubles
      BY <1>15 DEF Fallback
    <3> QED
      BY <3>1, <1>b DEF TypeOK, Trouble
  <2>6. pc' \in [Jobs -> Step]
    BY <1>15, <1>a DEF TypeOK, Fallback, Goto, Step
  <2> QED
    BY <1>15, <2>1, <2>2, <2>3, <2>4, <2>5, <2>6 DEF TypeOK, Fallback
<1>16. ASSUME NEW j \in Jobs, Flag(j) PROVE TypeOK'
  <2>1. convRow' \in [Customers -> Jobs \cup {Free, Person}]
    BY <1>16, <1>a DEF TypeOK, Flag
  <2>2. tx' \in [Jobs -> Transaction]
    <3>1. [tx[j] EXCEPT !.due = TRUE, !.custody = "take"] \in Transaction
      BY <1>d DEF Transaction
    <3>2. [tx[j] EXCEPT !.due = TRUE] \in Transaction
      BY <1>d DEF Transaction
    <3> QED
      BY <1>16, <3>1, <3>2 DEF TypeOK, Flag
  <2>3. pc' \in [Jobs -> Step]
    BY <1>16, <1>a DEF TypeOK, Flag, Goto, Step
  <2> QED
    BY <1>16, <2>1, <2>2, <2>3 DEF TypeOK, Flag
<1>17. ASSUME NEW j \in Jobs, HonourStop(j) PROVE TypeOK'
  <2>1. answers' \in [Messages -> Nat]
    BY <1>17, <1>a, SMTT(30) DEF TypeOK, HonourStop, Leaves, NotConfirmed
  <2>2. tx' \in [Jobs -> Transaction]
    <3>1. [tx[j] EXCEPT !.stop = TRUE, !.sent = TRUE] \in Transaction
      BY <1>d DEF Transaction
    <3>2. [tx[j] EXCEPT !.stop = TRUE] \in Transaction
      BY <1>d DEF Transaction
    <3>3. [tx[j] EXCEPT !.due = TRUE] \in Transaction
      BY <1>d DEF Transaction
    <3> QED
      BY <1>17, <3>1, <3>2, <3>3 DEF TypeOK, HonourStop
  <2>3. troubles' \in 0..MaxTroubles
    BY <1>17, <1>b DEF TypeOK, HonourStop, Trouble
  <2>4. pc' \in [Jobs -> Step]
    BY <1>17, <1>a DEF TypeOK, HonourStop, Goto, Step
  <2> QED
    BY <1>17, <2>1, <2>2, <2>3, <2>4 DEF TypeOK, HonourStop
<1>18. ASSUME NEW j \in Jobs, Commit(j) PROVE TypeOK'
  <2>1. stored' \in [Messages -> Nat]
    BY <1>18, <1>a, <1>d DEF TypeOK, Commit, Transaction
  <2>2. handoff' \in [Customers -> BOOLEAN]
    BY <1>18, <1>a DEF TypeOK, Commit
  <2>3. optedOut' \subseteq Customers
    BY <1>18, <1>a DEF TypeOK, Commit
  <2>4. repliedAt' \in [Messages -> Nat]
    BY <1>18, <1>a, <1>d DEF TypeOK, Commit, Transaction
  <2>5. lastMetric' \in [Customers -> Nat]
    BY <1>18, <1>a, <1>d DEF TypeOK, Commit, Transaction
  <2>6. forgotten' \in [Messages -> Nat]
    BY <1>18, <1>a DEF TypeOK, Commit
  <2>7. troubles' \in 0..MaxTroubles
    BY <1>18, <1>b DEF TypeOK, Commit, Trouble
  <2>8. tx' \in [Jobs -> Transaction]
    BY <1>18, <1>a, <1>d, NoTxType DEF TypeOK, Commit
  <2>9. contactRow' \in [Customers -> Jobs \cup {Free, Person}]
    BY <1>18, <1>a DEF TypeOK, Commit, FreeRows, Freed
  <2>10. convRow' \in [Customers -> Jobs \cup {Free, Person}]
    BY <1>18, <1>a DEF TypeOK, Commit, FreeRows, Freed
  <2>11. pc' \in [Jobs -> Step]
    BY <1>18, <1>a DEF TypeOK, Commit, Goto, Step
  <2> QED
    BY <1>18, <2>1, <2>2, <2>3, <2>4, <2>5, <2>6, <2>7, <2>8, <2>9, <2>10, <2>11 DEF TypeOK, Commit
<1>19. ASSUME NEW j \in Jobs, CommitFails(j) PROVE TypeOK'
  <2>1. pc[j] # "idle" /\ Throw(j) /\ troubles' \in 0..MaxTroubles
    BY <1>19, <1>b DEF TypeOK, CommitFails, OnShared, Trouble
  <2> QED
    BY <2>1, ThrowType
<1>20. ASSUME NEW j \in Jobs, RecordOwn(j) PROVE TypeOK'
  <2>1. stored' \in [Messages -> Nat]
    <3>1. UNCHANGED stored \/ stored' = [stored EXCEPT ![Cur(j)] = tx[j].start]
      BY <1>20 DEF RecordOwn
    <3>2. stored \in [Messages -> Nat] /\ tx[j].start \in Nat
      BY <1>d DEF TypeOK, Transaction
    <3> QED
      BY <3>1, <3>2
  <2>2. tx' \in [Jobs -> Transaction]
    BY <1>20, <1>a, <1>d, NoTxType DEF TypeOK, RecordOwn
  <2>3. pc' \in [Jobs -> Step]
    <3>1. Goto(j, "unlock") \/ Goto(j, "ownStop") \/ Goto(j, "route")
      BY <1>20 DEF RecordOwn
    <3> QED
      BY <3>1, <1>a DEF TypeOK, Goto, Step
  <2> QED
    BY <1>20, <2>1, <2>2, <2>3 DEF TypeOK, RecordOwn
<1>21. ASSUME NEW j \in Jobs, HonourOwnStop(j) PROVE TypeOK'
  <2>1. optedOut' \subseteq Customers
    BY <1>21, <1>a DEF TypeOK, HonourOwnStop
  <2>2. answers' \in [Messages -> Nat]
    <3>1. UNCHANGED answers \/ answers' = [answers EXCEPT ![Cur(j)] = answers[Cur(j)] + 1]
      BY <1>21 DEF HonourOwnStop
    <3>2. answers \in [Messages -> Nat] /\ Cur(j) \in Messages
      BY <1>a DEF TypeOK
    <3> QED
      BY <3>1, <3>2
  <2>3. troubles' \in 0..MaxTroubles
    BY <1>21, <1>b DEF TypeOK, HonourOwnStop, Trouble
  <2>4. pc' \in [Jobs -> Step]
    BY <1>21, <1>a DEF TypeOK, HonourOwnStop, Goto, Step
  <2> QED
    BY <1>21, <2>1, <2>2, <2>3, <2>4 DEF TypeOK, HonourOwnStop
<1>22. ASSUME NEW j \in Jobs, RouteOwn(j) PROVE TypeOK'
  <2>1. routed' \subseteq Messages
    BY <1>22, <1>a DEF TypeOK, RouteOwn
  <2>2. handoff' \in [Customers -> BOOLEAN]
    BY <1>22, <1>a DEF TypeOK, RouteOwn
  <2>3. pc' \in [Jobs -> Step]
    BY <1>22, <1>a DEF TypeOK, RouteOwn, Goto, Step
  <2> QED
    BY <1>22, <2>1, <2>2, <2>3 DEF TypeOK, RouteOwn
<1>23. ASSUME NEW j \in Jobs, RouteFails(j) PROVE TypeOK'
  <2>1. pc[j] # "idle" /\ Throw(j) /\ troubles' \in 0..MaxTroubles
    BY <1>23, <1>b DEF TypeOK, RouteFails, Trouble
  <2> QED
    BY <2>1, ThrowType
<1>24. ASSUME NEW j \in Jobs, JobIsVictim(j) PROVE TypeOK'
  <2>1. tx' \in [Jobs -> Transaction]
    <3>1. [tx[j] EXCEPT !.reply = FALSE] \in Transaction
      BY <1>d DEF Transaction
    <3>2. [tx[j] EXCEPT !.due = TRUE] \in Transaction
      BY <1>d DEF Transaction
    <3> QED
      BY <1>24, <3>1, <3>2 DEF TypeOK, JobIsVictim
  <2>2. offRecord' \subseteq Messages
    BY <1>24, <1>a DEF TypeOK, JobIsVictim
  <2>3. pc' \in [Jobs -> Step]
    BY <1>24, <1>a, ZenonT(60) DEF TypeOK, JobIsVictim, Goto, Step, AfterAssign
  <2> QED
    BY <1>24, <2>1, <2>2, <2>3 DEF TypeOK, JobIsVictim
<1>25. ASSUME NEW c \in Customers, Expire(c) PROVE TypeOK'
  <2>1. lock' \in [Customers -> Jobs \cup {Free, Orphan}]
    BY <1>25, <1>a DEF TypeOK, Expire
  <2> QED
    BY <1>25, <2>1 DEF TypeOK, Expire
<1>26. ASSUME NEW c \in Customers, Lapse(c) PROVE TypeOK'
  <2>1. lock' \in [Customers -> Jobs \cup {Free, Orphan}]
    BY <1>26, <1>a DEF TypeOK, Lapse
  <2>2. overstayed' \subseteq Jobs
    BY <1>26, <1>a DEF TypeOK, Lapse
  <2>3. troubles' \in 0..MaxTroubles
    BY <1>26, <1>b DEF TypeOK, Lapse, Trouble
  <2> QED
    BY <1>26, <2>1, <2>2, <2>3 DEF TypeOK, Lapse
<1>27. ASSUME NEW c \in Customers, PauseEnds(c) PROVE TypeOK'
  <2>1. paused' \in [Customers -> BOOLEAN]
    BY <1>27, <1>a DEF TypeOK, PauseEnds
  <2> QED
    BY <1>27, <2>1 DEF TypeOK, PauseEnds
<1>28. ASSUME NEW c \in Customers, PersonCommits(c) PROVE TypeOK'
  <2>1. handoff' \in [Customers -> BOOLEAN]
    <3>1. UNCHANGED handoff \/ (handoff' = [handoff EXCEPT ![c] = Wants(person[c])] /\ Wants(person[c]) \in BOOLEAN)
      BY <1>28 DEF PersonCommits, Wants
    <3> QED
      BY <3>1, <1>a DEF TypeOK
  <2>2. paused' \in [Customers -> BOOLEAN]
    BY <1>28, <1>a DEF TypeOK, PersonCommits, Wants
  <2>3. person' \in [Customers -> {"away", "reply", "take", "giveBack"}]
    BY <1>28, <1>a DEF TypeOK, PersonCommits
  <2>4. contactRow' \in [Customers -> Jobs \cup {Free, Person}]
    BY <1>28, <1>a DEF TypeOK, PersonCommits
  <2>5. convRow' \in [Customers -> Jobs \cup {Free, Person}]
    BY <1>28, <1>a DEF TypeOK, PersonCommits
  <2> QED
    BY <1>28, <2>1, <2>2, <2>3, <2>4, <2>5 DEF TypeOK, PersonCommits
<1>29. ASSUME NEW c \in Customers, PersonIsVictim(c) PROVE TypeOK'
  <2>1. person' \in [Customers -> {"away", "reply", "take", "giveBack"}]
    BY <1>29, <1>a DEF TypeOK, PersonIsVictim
  <2>2. convRow' \in [Customers -> Jobs \cup {Free, Person}]
    BY <1>29, <1>a DEF TypeOK, PersonIsVictim
  <2> QED
    BY <1>29, <2>1, <2>2 DEF TypeOK, PersonIsVictim
<1>30. ASSUME NEW c \in Customers, NEW act \in {"reply", "take", "giveBack"}, PersonStarts(c, act) PROVE TypeOK'
  <2>1. contactRow' \in [Customers -> Jobs \cup {Free, Person}]
    <3>1. UNCHANGED contactRow \/ contactRow' = [contactRow EXCEPT ![c] = Person]
      BY <1>30 DEF PersonStarts
    <3> QED
      BY <3>1, <1>a DEF TypeOK
  <2>2. convRow' \in [Customers -> Jobs \cup {Free, Person}]
    BY <1>30, <1>a, ZenonT(60) DEF TypeOK, PersonStarts
  <2>3. person' \in [Customers -> {"away", "reply", "take", "giveBack"}]
    BY <1>30, <1>a DEF TypeOK, PersonStarts
  <2>4. acts' \in 0..MaxActs
    BY <1>30, <1>b DEF TypeOK, PersonStarts
  <2> QED
    BY <1>30, <2>1, <2>2, <2>3, <2>4 DEF TypeOK, PersonStarts
<1>31. ASSUME Crash PROVE TypeOK'
  <2>1. job' \in [Jobs -> {"waiting", "active", "done", "failed"}]
    BY <1>31, <1>a DEF TypeOK, Crash, AfterCrash
  <2>2. pos' \in [Jobs -> Nat \ {0}] /\ \A i \in Jobs : pos'[i] <= Len(Batch[i])
    <3>1. pos' = [i \in Jobs |-> IF job[i] = "active" THEN 1 ELSE pos[i]]
      BY <1>31 DEF Crash
    <3>2. pos \in [Jobs -> Nat \ {0}] /\ \A i \in Jobs : pos[i] <= Len(Batch[i])
      BY DEF TypeOK
    <3> QED
      BY <3>1, <3>2, <1>a
  <2>3. pc' \in [Jobs -> Step]
    BY <1>31, <1>a DEF TypeOK, Crash, Goto, Step
  <2>4. tx' \in [Jobs -> Transaction]
    BY <1>31, <1>a, <1>d, NoTxType DEF TypeOK, Crash
  <2>5. lock' \in [Customers -> Jobs \cup {Free, Orphan}]
    BY <1>31, <1>a DEF TypeOK, Crash
  <2>6. contactRow' \in [Customers -> Jobs \cup {Free, Person}]
    BY <1>31, <1>a DEF TypeOK, Crash
  <2>7. convRow' \in [Customers -> Jobs \cup {Free, Person}]
    BY <1>31, <1>a DEF TypeOK, Crash
  <2>8. forgotten' \in [Messages -> Nat]
    <3> DEFINE left(m) == {i \in Jobs : Inside(i) /\ tx[i].sent /\ Cur(i) = m}
    <3>1. forgotten' = [m \in Messages |-> forgotten[m] + Cardinality(left(m))]
      BY <1>31 DEF Crash
    <3>2. ASSUME NEW m \in Messages PROVE Cardinality(left(m)) \in Nat
      BY ConstantsAssumption, FS_Subset, FS_CardinalityType
    <3> HIDE DEF left
    <3> QED
      BY <3>1, <3>2 DEF TypeOK
  <2>9. offRecord' \subseteq Messages
    BY <1>31, <1>a DEF TypeOK, Crash
  <2>10. overstayed' \subseteq Jobs
    BY <1>31, <1>a DEF TypeOK, Crash
  <2>11. troubles' \in 0..MaxTroubles
    BY <1>31, <1>b DEF TypeOK, Crash, Trouble
  <2> QED
    BY <1>31, <2>1, <2>2, <2>3, <2>4, <2>5, <2>6, <2>7, <2>8, <2>9, <2>10, <2>11 DEF TypeOK, Crash
<1>32. CASE UNCHANGED vars
  BY <1>32 DEF TypeOK, vars
<1> QED
  BY <1>1, <1>2, <1>3, <1>4, <1>5, <1>6, <1>7, <1>8, <1>9, <1>10, <1>11, <1>12, <1>12a, <1>13, <1>14, <1>15, <1>16, <1>17, <1>18, <1>19, <1>20, <1>21, <1>22, <1>23, <1>24, <1>25, <1>26, <1>27, <1>28, <1>29, <1>30, <1>31, <1>32 DEF Next, JobNext, Handle, Break

-----------------------------------------------------------------------------
(* Where the steps of a job and of the others leave the queue and the lock.*)

LEMMA CustStays ==
  ASSUME NEW i \in Jobs, pos'[i] = pos[i]
  PROVE  Cust(i)' = Cust(i) /\ Cur(i)' = Cur(i)
BY DEF Cust, Cur

(* Handling a message keeps its job within it. *)
LEMMA WithinMessage ==
  ASSUME NEW j \in Jobs, Handle(j) \/ JobIsVictim(j)
  PROVE  /\ pc[j] \notin {"idle", "lock"}
         /\ \E s \in Step \ {"idle", "lock"} : pc' = [pc EXCEPT ![j] = s]
         /\ UNCHANGED <<input, job, attempt, pos, lock, overstayed>>
<1> USE DEF OnShared, Goto, Step, queueVars, historyVars, boundVars, dataVars, rowVars
<1>1. CASE Record(j) \/ RecordUnsure(j)
  BY <1>1 DEF Record, RecordUnsure
<1>2. CASE ReleaseStale(j) \/ Escalate(j) \/ Flag(j) \/ SendRefused(j)
  BY <1>2 DEF ReleaseStale, Escalate, Flag, SendRefused
<1>3. CASE Assign(j)
  BY <1>3 DEF Assign, AfterAssign
<1>4. CASE Compose(j)
  BY <1>4 DEF Compose
<1>5. CASE SendReply(j) \/ SendUnfinished(j) \/ SendUnheard(j) \/ FallbackUnheard(j)
  BY <1>5 DEF SendReply, SendUnfinished, SendUnheard, FallbackUnheard
<1>6. CASE Fallback(j)
  BY <1>6 DEF Fallback
<1>7. CASE HonourStop(j) \/ Commit(j)
  BY <1>7 DEF HonourStop, Commit
<1>8. CASE RecordOwn(j)
  BY <1>8 DEF RecordOwn
<1>9. CASE HonourOwnStop(j) \/ RouteOwn(j)
  BY <1>9 DEF HonourOwnStop, RouteOwn
<1>10. CASE JobIsVictim(j)
  BY <1>10 DEF JobIsVictim, Deadlocked, AfterAssign
<1> QED
  BY <1>1, <1>2, <1>3, <1>4, <1>5, <1>6, <1>7, <1>8, <1>9, <1>10 DEF Handle

(* Four steps throw, all of a job that is at work. *)
LEMMA Throws ==
  ASSUME NEW j \in Jobs, GiveUp(j) \/ Break(j)
  PROVE  pc[j] # "idle" /\ Throw(j)
BY DEF GiveUp, Break, RecordFails, CommitFails, RouteFails, OnShared

PersonActs(c) ==
  PersonCommits(c) \/ PersonIsVictim(c) \/ \E act \in {"reply", "take", "giveBack"} : PersonStarts(c, act)

(* People touch neither the queue nor the lock nor an open transaction. *)
LEMMA PeopleStandAside ==
  ASSUME NEW c \in Customers, PersonActs(c) \/ PauseEnds(c)
  PROVE  UNCHANGED <<input, job, attempt, pos, pc, tx, lock, overstayed, talkedOver>>
BY DEF PersonActs, PersonCommits, PersonIsVictim, PersonStarts, PauseEnds, queueVars, historyVars

(* The steps, grouped as the proofs below take them. *)
LEMMA Steps ==
  ASSUME [Next]_vars
  PROVE  \/ \E j \in Jobs : \/ Take(j) \/ Acquire(j) \/ Unlock(j) \/ GiveUp(j) \/ Break(j)
                            \/ Handle(j) \/ JobIsVictim(j)
         \/ \E c \in Customers : Expire(c) \/ Lapse(c) \/ PersonActs(c) \/ PauseEnds(c)
         \/ Crash \/ UNCHANGED vars
BY DEF Next, JobNext, PersonActs

LEMMA QueueStep == TypeOK /\ Queue /\ [Next]_vars => Queue'
<1> SUFFICES ASSUME TypeOK, Queue, [Next]_vars PROVE Queue'
  OBVIOUS
<1> USE DEF Queue
<1>1. ASSUME NEW j \in Jobs, Take(j) PROVE Queue'
  BY <1>1 DEF Take, TypeOK, Goto
<1>2. ASSUME NEW j \in Jobs, Acquire(j) PROVE Queue'
  BY <1>2 DEF Acquire, TypeOK, Goto, queueVars
<1>3. ASSUME NEW j \in Jobs, Unlock(j) PROVE Queue'
  BY <1>3 DEF Unlock, TypeOK, Goto
<1>4. ASSUME NEW j \in Jobs, GiveUp(j) \/ Break(j) PROVE Queue'
  <2>1. pc[j] # "idle" /\ Throw(j)
    BY <1>4, Throws
  <2>2. attempt[j] \in 0..Attempts /\ attempt[j] < Attempts /\ Attempts \in Nat
    BY <2>1, ConstantsAssumption DEF TypeOK
  <2>3. AfterThrow(j) \in {"waiting", "active"} => attempt[j] + 1 < Attempts
    BY <2>2 DEF AfterThrow
  <2>4. /\ job' = [job EXCEPT ![j] = AfterThrow(j)] /\ attempt' = [attempt EXCEPT ![j] = attempt[j] + 1]
        /\ pc' = [pc EXCEPT ![j] = "idle"]
    BY <2>1 DEF Throw, Goto
  <2> QED
    BY <2>3, <2>4 DEF TypeOK
<1>5. ASSUME NEW j \in Jobs, Handle(j) \/ JobIsVictim(j) PROVE Queue'
  BY <1>5, WithinMessage DEF TypeOK
<1>6. ASSUME NEW c \in Customers, PersonActs(c) \/ PauseEnds(c) PROVE Queue'
  BY <1>6, PeopleStandAside
<1>7. ASSUME NEW c \in Customers, Expire(c) \/ Lapse(c) PROVE Queue'
  BY <1>7 DEF Expire, Lapse, queueVars
<1>8. CASE Crash
  BY <1>8 DEF Crash, AfterCrash, TypeOK
<1>9. CASE UNCHANGED vars
  BY <1>9 DEF vars, queueVars
<1> QED
  BY <1>1, <1>2, <1>3, <1>4, <1>5, <1>6, <1>7, <1>8, <1>9, Steps

-----------------------------------------------------------------------------
(* A job that leaves its message, done with it or not, leaves no lock of   *)
(* its own, and no other job's lock is gone.                               *)
LEMMA LeavingALock ==
  ASSUME TypeOK, Locks, NEW j \in Jobs, ~Inside(j)', DeleteLock(j), overstayed' = overstayed \ {j},
         \A i \in Jobs \ {j} : pc'[i] = pc[i] /\ pos'[i] = pos[i]
  PROVE  Locks'
<1>0. \A i \in Jobs : Cust(i) \in Customers
  BY CurFacts
<1>1. \A i \in Jobs \ {j} : (Inside(i)' <=> Inside(i)) /\ Cust(i)' = Cust(i)
  BY CustStays DEF Inside
<1>2. Free \notin Jobs
  BY ConstantsAssumption
<1>3. lock' = [lock EXCEPT ![Cust(j)] = IF lock[Cust(j)] = j THEN Free ELSE lock[Cust(j)]]
  BY DEF DeleteLock
<1>4. ASSUME NEW c \in Customers, lock'[c] \in Jobs
      PROVE  Inside(lock[c])' /\ Cust(lock[c])' = c /\ lock'[c] = lock[c] /\ lock[c] # j /\ lock[c] \notin overstayed'
  <2>1. lock'[c] = lock[c] /\ lock[c] # j
    BY <1>2, <1>3, <1>4, <1>0 DEF Locks, TypeOK
  <2> QED
    BY <2>1, <1>1, <1>4 DEF Locks
<1>5. ASSUME NEW i \in Jobs, Inside(i)', i \notin overstayed' PROVE lock'[Cust(i)'] = i
  <2>1. i # j
    BY <1>5
  <2>2. lock[Cust(i)] = i
    BY <1>1, <1>5, <2>1 DEF Locks
  <2> QED
    BY <2>1, <2>2, <1>1, <1>3, <1>0 DEF TypeOK
<1>6. \A i \in overstayed' : Inside(i)'
  BY <1>1 DEF Locks, TypeOK
<1> QED
  BY <1>4, <1>5, <1>6 DEF Locks, Inside, Cust, Cur

LEMMA LocksStep == TypeOK /\ Queue /\ Locks /\ [Next]_vars => Locks'
<1> SUFFICES ASSUME TypeOK, Queue, Locks, [Next]_vars PROVE Locks'
  OBVIOUS
<1>a. Free \notin Jobs /\ Orphan \notin Jobs
  BY ConstantsAssumption
<1>b. \A i \in Jobs : Cust(i) \in Customers
  BY CurFacts
<1>1. ASSUME NEW j \in Jobs, Take(j) PROVE Locks'
  <2>1. job[j] = "waiting" /\ pc' = [pc EXCEPT ![j] = "lock"] /\ UNCHANGED <<lock, overstayed, pos>>
    BY <1>1 DEF Take, Goto, historyVars
  <2>2. pc[j] = "idle"
    BY <2>1 DEF Queue
  <2>3. \A i \in Jobs : (Inside(i)' <=> Inside(i)) /\ Cust(i)' = Cust(i)
    BY <2>1, <2>2, CustStays DEF Inside, TypeOK
  <2> QED
    BY <2>1, <2>3 DEF Locks, Inside, Cust, Cur, TypeOK
<1>2. ASSUME NEW j \in Jobs, Acquire(j) PROVE Locks'
  <2>1. /\ pc[j] = "lock" /\ pc' = [pc EXCEPT ![j] = "record"] /\ lock[Cust(j)] = Free
        /\ lock' = [lock EXCEPT ![Cust(j)] = j] /\ UNCHANGED <<overstayed, pos>>
    BY <1>2 DEF Acquire, Goto, historyVars, queueVars
  <2>2. j \notin overstayed /\ Inside(j)' /\ Cust(j) \in Customers
    BY <2>1, <1>b DEF Locks, Inside, TypeOK
  <2>3. \A i \in Jobs : Cust(i)' = Cust(i) /\ (i # j => (Inside(i)' <=> Inside(i)))
    BY <2>1, CustStays DEF Inside, TypeOK
  <2>4. ASSUME NEW c \in Customers, lock'[c] \in Jobs
        PROVE  Inside(lock[c])' /\ Cust(lock[c])' = c /\ lock'[c] \notin overstayed'
    <3>1. CASE c = Cust(j)
      <4>1. lock'[c] = j
        BY <3>1, <2>1 DEF TypeOK
      <4> QED
        BY <4>1, <3>1, <2>1, <2>2, <2>3
    <3>2. CASE c # Cust(j)
      <4>1. lock'[c] = lock[c] /\ Inside(lock[c]) /\ Cust(lock[c]) = c /\ lock[c] \notin overstayed
        BY <3>2, <2>1, <2>4 DEF Locks, TypeOK
      <4>2. lock[c] # j
        BY <4>1, <3>2
      <4> QED
        BY <4>1, <4>2, <2>1, <2>3, <2>4
    <3> QED
      BY <3>1, <3>2
  <2>5. ASSUME NEW i \in Jobs, Inside(i)', i \notin overstayed' PROVE lock'[Cust(i)] = i
    <3>1. CASE i = j
      BY <3>1, <2>1, <2>2 DEF TypeOK
    <3>2. CASE i # j
      <4>1. lock[Cust(i)] = i
        BY <3>2, <2>1, <2>3, <2>5 DEF Locks
      <4>2. Cust(i) # Cust(j)
        BY <4>1, <2>1, <1>a
      <4> QED
        BY <4>1, <4>2, <2>1, <1>b DEF TypeOK
    <3> QED
      BY <3>1, <3>2
  <2>6. \A i \in overstayed' : Inside(i)'
    BY <2>1, <2>2, <2>3 DEF Locks, TypeOK
  <2> QED
    BY <2>3, <2>4, <2>5, <2>6 DEF Locks
<1>3. ASSUME NEW j \in Jobs, Unlock(j) PROVE Locks'
  <2>1. /\ DeleteLock(j) /\ overstayed' = overstayed \ {j}
        /\ \E s \in {"idle", "lock"} : pc' = [pc EXCEPT ![j] = s]
        /\ UNCHANGED pos \/ pos' = [pos EXCEPT ![j] = @ + 1]
    BY <1>3 DEF Unlock, Goto
  <2>2. ~Inside(j)' /\ \A i \in Jobs \ {j} : pc'[i] = pc[i] /\ pos'[i] = pos[i]
    BY <2>1 DEF Inside, TypeOK
  <2> QED
    BY <2>1, <2>2, LeavingALock
<1>4. ASSUME NEW j \in Jobs, GiveUp(j) \/ Break(j) PROVE Locks'
  <2>1. /\ DeleteLock(j) /\ overstayed' = overstayed \ {j}
        /\ pc' = [pc EXCEPT ![j] = "idle"] /\ pos' = [pos EXCEPT ![j] = 1]
    BY <1>4, Throws DEF Throw, Goto
  <2>2. ~Inside(j)' /\ \A i \in Jobs \ {j} : pc'[i] = pc[i] /\ pos'[i] = pos[i]
    BY <2>1 DEF Inside, TypeOK
  <2> QED
    BY <2>1, <2>2, LeavingALock
<1>5. ASSUME NEW j \in Jobs, Handle(j) \/ JobIsVictim(j) PROVE Locks'
  <2>1. /\ pc[j] \notin {"idle", "lock"} /\ UNCHANGED <<pos, lock, overstayed>>
        /\ \E s \in Step \ {"idle", "lock"} : pc' = [pc EXCEPT ![j] = s]
    BY <1>5, WithinMessage
  <2>2. \A i \in Jobs : (Inside(i)' <=> Inside(i)) /\ Cust(i)' = Cust(i)
    BY <2>1, CustStays DEF Inside, TypeOK
  <2> QED
    BY <2>1, <2>2 DEF Locks, Inside, Cust, Cur, TypeOK
<1>6. ASSUME NEW c \in Customers, PersonActs(c) \/ PauseEnds(c) PROVE Locks'
  BY <1>6, PeopleStandAside DEF Locks, Inside, Cust, Cur
<1>7. ASSUME NEW c \in Customers, Expire(c) PROVE Locks'
  <2>1. lock[c] = Orphan /\ lock' = [lock EXCEPT ![c] = Free] /\ UNCHANGED <<pos, pc, overstayed>>
    BY <1>7 DEF Expire, queueVars, historyVars
  <2> QED
    BY <2>1, <1>a, <1>b DEF Locks, Inside, Cust, Cur, TypeOK
<1>8. ASSUME NEW c \in Customers, Lapse(c) PROVE Locks'
  <2>1. /\ lock[c] \in Jobs /\ lock' = [lock EXCEPT ![c] = Free]
        /\ overstayed' = overstayed \cup {lock[c]} /\ UNCHANGED <<pos, pc>>
    BY <1>8 DEF Lapse, queueVars
  <2>2. \A i \in Jobs : (Inside(i)' <=> Inside(i)) /\ Cust(i)' = Cust(i)
    BY <2>1, CustStays DEF Inside
  <2>3. Inside(lock[c]) /\ Cust(lock[c]) = c
    BY <2>1 DEF Locks
  <2>4. ASSUME NEW d \in Customers, lock'[d] \in Jobs
        PROVE  d # c /\ lock'[d] = lock[d] /\ Inside(lock[d]) /\ Cust(lock[d]) = d /\ lock[d] \notin overstayed'
    BY <2>1, <2>3, <2>4, <1>a DEF Locks, TypeOK
  <2>5. ASSUME NEW i \in Jobs, Inside(i), i \notin overstayed' PROVE lock'[Cust(i)] = i
    <3>1. lock[Cust(i)] = i /\ i # lock[c]
      BY <2>1, <2>5 DEF Locks
    <3> QED
      BY <3>1, <2>1, <1>b DEF TypeOK
  <2>6. \A i \in overstayed' : Inside(i)
    BY <2>1, <2>3 DEF Locks
  <2> QED
    BY <2>1, <2>2, <2>4, <2>5, <2>6 DEF Locks, Inside, Cust, Cur, TypeOK
<1>9. CASE Crash
  <2>1. /\ pc' = [i \in Jobs |-> "idle"] /\ overstayed' = {}
        /\ lock' = [c \in Customers |-> IF lock[c] \in Jobs THEN Orphan ELSE lock[c]]
    BY <1>9 DEF Crash
  <2> QED
    BY <2>1, <1>a DEF Locks, Inside
<1>10. CASE UNCHANGED vars
  BY <1>10 DEF vars, Locks, Inside, Cust, Cur, queueVars, historyVars
<1> QED
  BY <1>1, <1>2, <1>3, <1>4, <1>5, <1>6, <1>7, <1>8, <1>9, <1>10, Steps

-----------------------------------------------------------------------------
(* The contact's row is a job's from the record to the commit. *)

Unheard(j) == SendUnheard(j) \/ FallbackUnheard(j)

Midway(j) ==
  \/ ReleaseStale(j) \/ Assign(j) \/ Compose(j) \/ SendReply(j) \/ SendRefused(j) \/ SendUnfinished(j)
  \/ Escalate(j) \/ Fallback(j) \/ Flag(j) \/ HonourStop(j) \/ JobIsVictim(j) \/ Unheard(j)

(* What a job does between the two keeps it between them. *)
LEMMA MidwayFrame ==
  ASSUME NEW j \in Jobs, Midway(j)
  PROVE  /\ pc[j] \in Recorded /\ \E s \in Recorded : pc' = [pc EXCEPT ![j] = s]
         /\ UNCHANGED <<input, pos, contactRow, person, dataVars>>
<1> USE DEF OnShared, Goto, Recorded, queueVars, rowVars
<1>1. CASE ReleaseStale(j) \/ Escalate(j) \/ Flag(j) \/ SendRefused(j)
  BY <1>1 DEF ReleaseStale, Escalate, Flag, SendRefused
<1>2. CASE Assign(j)
  BY <1>2 DEF Assign, AfterAssign
<1>3. CASE Compose(j)
  BY <1>3 DEF Compose
<1>4. CASE SendReply(j) \/ SendUnfinished(j) \/ Unheard(j)
  BY <1>4 DEF SendReply, SendUnfinished, Unheard, SendUnheard, FallbackUnheard
<1>5. CASE Fallback(j)
  BY <1>5 DEF Fallback
<1>6. CASE HonourStop(j)
  BY <1>6 DEF HonourStop
<1>7. CASE JobIsVictim(j)
  BY <1>7 DEF JobIsVictim, Deadlocked, AfterAssign
<1> QED
  BY <1>1, <1>2, <1>3, <1>4, <1>5, <1>6, <1>7 DEF Midway

OwnLine == {"ownStop", "route"}

(* A job that is not between the two may free rows of its own, no others.  *)
LEMMA LeavingTheRows ==
  ASSUME TypeOK, Rows, NEW j \in Jobs, pc'[j] \notin Recorded \cup OwnLine,
         FreeRows(j) \/ UNCHANGED contactRow, UNCHANGED <<input, person>>,
         \A i \in Jobs \ {j} : pc'[i] = pc[i] /\ pos'[i] = pos[i]
  PROVE  Rows'
<1>1. Free \notin Jobs /\ Person \notin Jobs /\ \A i \in Jobs : Cust(i) \in Customers
  BY CurFacts, ConstantsAssumption
<1>2. \A c \in Customers : contactRow'[c] = contactRow[c] \/ (contactRow[c] = j /\ contactRow'[c] = Free)
  BY DEF FreeRows, Freed
<1>3. \A i \in Jobs \ {j} : Cust(i)' = Cust(i)
  BY CustStays
<1>4. ASSUME NEW i \in Jobs, pc'[i] \in Recorded PROVE contactRow'[Cust(i)'] = i /\ line' = "shared"
  <2>1. i # j /\ contactRow[Cust(i)] = i /\ line = "shared"
    BY <1>4 DEF Rows
  <2> QED
    BY <2>1, <1>1, <1>2, <1>3 DEF line
<1>5. ASSUME NEW c \in Customers, person'[c] = "reply" PROVE contactRow'[c] = Person
  BY <1>5, <1>1, <1>2 DEF Rows
<1>6. ASSUME NEW i \in Jobs, pc'[i] \in OwnLine PROVE line' # "shared"
  BY <1>6 DEF Rows, line, OwnLine
<1> QED
  BY <1>4, <1>5, <1>6 DEF Rows, OwnLine, Recorded

LEMMA RowsStep == TypeOK /\ Queue /\ Rows /\ [Next]_vars => Rows'
<1> SUFFICES ASSUME TypeOK, Queue, Rows, [Next]_vars PROVE Rows'
  OBVIOUS
<1>a. Free \notin Jobs /\ Person \notin Jobs /\ \A i \in Jobs : Cust(i) \in Customers
  BY CurFacts, ConstantsAssumption
<1>1. ASSUME NEW j \in Jobs, Take(j) \/ Acquire(j) \/ Unlock(j) PROVE Rows'
  <2>1. /\ \E s \in {"idle", "lock", "record"} : pc' = [pc EXCEPT ![j] = s]
        /\ UNCHANGED <<contactRow, input, person>>
        /\ UNCHANGED pos \/ pos' = [pos EXCEPT ![j] = @ + 1]
    BY <1>1 DEF Take, Acquire, Unlock, Goto, rowVars, queueVars
  <2>2. pc'[j] \notin Recorded \cup OwnLine /\ \A i \in Jobs \ {j} : pc'[i] = pc[i] /\ pos'[i] = pos[i]
    BY <2>1 DEF TypeOK, Recorded, OwnLine
  <2> QED
    BY <2>1, <2>2, LeavingTheRows
<1>2. ASSUME NEW j \in Jobs, GiveUp(j) \/ Break(j) PROVE Rows'
  <2>1. /\ pc' = [pc EXCEPT ![j] = "idle"] /\ pos' = [pos EXCEPT ![j] = 1]
        /\ FreeRows(j) /\ UNCHANGED <<input, person>>
    BY <1>2, Throws DEF Throw, Goto
  <2>2. pc'[j] \notin Recorded \cup OwnLine /\ \A i \in Jobs \ {j} : pc'[i] = pc[i] /\ pos'[i] = pos[i]
    BY <2>1 DEF TypeOK, Recorded, OwnLine
  <2> QED
    BY <2>1, <2>2, LeavingTheRows
<1>3. ASSUME NEW j \in Jobs, Commit(j) \/ RouteOwn(j) PROVE Rows'
  <2>1. /\ pc' = [pc EXCEPT ![j] = "unlock"] /\ UNCHANGED <<pos, input, person>>
        /\ FreeRows(j) \/ UNCHANGED contactRow
    BY <1>3 DEF Commit, RouteOwn, Goto, queueVars, rowVars
  <2>2. pc'[j] \notin Recorded \cup OwnLine /\ \A i \in Jobs \ {j} : pc'[i] = pc[i] /\ pos'[i] = pos[i]
    BY <2>1 DEF TypeOK, Recorded, OwnLine
  <2> QED
    BY <2>1, <2>2, LeavingTheRows
<1>4. ASSUME NEW j \in Jobs, Record(j) \/ RecordUnsure(j) PROVE Rows'
  <2>1. /\ line = "shared" /\ pc[j] = "record" /\ contactRow[Cust(j)] = Free
        /\ contactRow' = [contactRow EXCEPT ![Cust(j)] = j] /\ UNCHANGED <<pos, input, person>>
        /\ \E s \in Recorded : pc' = [pc EXCEPT ![j] = s]
    BY <1>4 DEF Record, RecordUnsure, OnShared, ContactFree, Goto, Recorded, queueVars
  <2>2. \A i \in Jobs : Cust(i)' = Cust(i)
    BY <2>1, CustStays
  <2>3. ASSUME NEW i \in Jobs, pc'[i] \in Recorded PROVE contactRow'[Cust(i)'] = i /\ line' = "shared"
    <3>1. i # j => contactRow[Cust(i)] = i
      BY <2>1, <2>3 DEF Rows, TypeOK
    <3> QED
      BY <3>1, <2>1, <2>2, <1>a DEF TypeOK, line
  <2>4. ASSUME NEW c \in Customers, person'[c] = "reply" PROVE contactRow'[c] = Person
    BY <2>4, <2>1, <1>a, ConstantsAssumption DEF Rows, TypeOK
  <2>5. ASSUME NEW i \in Jobs PROVE pc'[i] \notin OwnLine
    BY <2>1 DEF Rows, TypeOK, OwnLine, Recorded
  <2> QED
    BY <2>3, <2>4, <2>5 DEF Rows, OwnLine
<1>5. ASSUME NEW j \in Jobs, Midway(j) PROVE Rows'
  <2>1. /\ pc[j] \in Recorded /\ UNCHANGED <<input, pos, contactRow, person>>
        /\ \E s \in Recorded : pc' = [pc EXCEPT ![j] = s]
    BY <1>5, MidwayFrame
  <2>2. \A i \in Jobs : /\ Cust(i)' = Cust(i) /\ (pc'[i] \in Recorded <=> pc[i] \in Recorded)
                        /\ pc'[i] \in OwnLine => pc[i] \in OwnLine
    BY <2>1, CustStays DEF TypeOK, OwnLine, Recorded
  <2> QED
    BY <2>1, <2>2 DEF Rows, line, Cust, Cur, OwnLine
<1>6. ASSUME NEW j \in Jobs, RecordOwn(j) \/ HonourOwnStop(j) PROVE Rows'
  <2>1. /\ line # "shared" /\ UNCHANGED <<input, pos, contactRow, person>>
        /\ \E s \in {"unlock", "ownStop", "route"} : pc' = [pc EXCEPT ![j] = s]
    BY <1>6 DEF RecordOwn, HonourOwnStop, Goto, rowVars, queueVars, Rows
  <2>2. \A i \in Jobs : pc'[i] \notin Recorded
    BY <2>1 DEF Rows, TypeOK, Recorded
  <2> QED
    BY <2>1, <2>2 DEF Rows, line
<1>7. ASSUME NEW c \in Customers, Expire(c) \/ Lapse(c) \/ PauseEnds(c) PROVE Rows'
  BY <1>7 DEF Expire, Lapse, PauseEnds, Rows, Cust, Cur, line, queueVars, rowVars
<1>8. ASSUME NEW c \in Customers, PersonActs(c) PROVE Rows'
  <2>1. UNCHANGED <<input, pc, pos>>
    BY <1>8, PeopleStandAside
  <2>2. \/ contactRow[c] = Free /\ contactRow' = [contactRow EXCEPT ![c] = Person]
             /\ person' = [person EXCEPT ![c] = "reply"]
        \/ UNCHANGED contactRow /\ \E act \in {"take", "giveBack"} : person' = [person EXCEPT ![c] = act]
        \/ contactRow' = [contactRow EXCEPT ![c] = IF @ = Person THEN Free ELSE @]
             /\ person' = [person EXCEPT ![c] = "away"]
        \/ UNCHANGED contactRow /\ person' = [person EXCEPT ![c] = "away"]
    BY <1>8 DEF PersonActs, PersonCommits, PersonIsVictim, PersonStarts
  <2>3. \A i \in Jobs : Cust(i)' = Cust(i)
    BY <2>1, CustStays
  <2>4. ASSUME NEW i \in Jobs, pc[i] \in Recorded PROVE contactRow'[Cust(i)] = i
    <3>1. contactRow[Cust(i)] = i /\ i # Free /\ i # Person
      BY <2>4, <1>a DEF Rows
    <3> QED
      BY <3>1, <2>2, <1>a DEF TypeOK
  <2>5. ASSUME NEW d \in Customers, person'[d] = "reply" PROVE contactRow'[d] = Person
    BY <2>2, <2>5 DEF Rows, TypeOK
  <2> QED
    BY <2>1, <2>3, <2>4, <2>5 DEF Rows, line, Cust, Cur
<1>9. CASE Crash
  <2>1. /\ pc' = [i \in Jobs |-> "idle"] /\ UNCHANGED person
        /\ contactRow' = [c \in Customers |-> IF contactRow[c] \in Jobs THEN Free ELSE contactRow[c]]
    BY <1>9 DEF Crash
  <2> QED
    BY <2>1, <1>a DEF Rows, Recorded
<1>10. CASE UNCHANGED vars
  BY <1>10 DEF vars, Rows, Cust, Cur, line, queueVars, rowVars
<1> QED
  BY <1>1, <1>2, <1>3, <1>4, <1>5, <1>6, <1>7, <1>8, <1>9, <1>10, Steps DEF Handle, Midway, Unheard

-----------------------------------------------------------------------------
(* Between the two, what the job read of custody stands. *)

(* A step of job j that leaves custody to the others as it is. *)
LEMMA CustodyOfOthers ==
  ASSUME TypeOK, Custody, NEW j \in Jobs,
         \A i \in Jobs \ {j} : pc'[i] = pc[i] /\ pos'[i] = pos[i] /\ tx'[i] = tx[i],
         \A i \in Jobs \ {j} : Answering(i) =>
           (handoff'[Cust(i)] => handoff[Cust(i)]) /\ (paused'[Cust(i)] => paused[Cust(i)]),
         pc'[j] = "stale" => tx'[j].stale,
         Answering(j)' => ~HeldByPerson(j)',
         ~talkedOver'
  PROVE  Custody'
<1>1. ASSUME NEW i \in Jobs \ {j}
      PROVE  (pc'[i] = "stale" => tx'[i].stale) /\ (Answering(i)' => ~HeldByPerson(i)')
  <2>1. Cust(i)' = Cust(i) /\ (Answering(i)' <=> Answering(i))
    BY CustStays DEF Answering
  <2>2. HeldByPerson(i)' /\ Answering(i) => HeldByPerson(i)
    BY <2>1 DEF HeldByPerson
  <2> QED
    BY <2>1, <2>2 DEF Custody
<1> QED
  BY <1>1 DEF Custody

(* A step that ends, or does not begin, the job's way to an answer. *)
LEMMA NotAnswering ==
  ASSUME TypeOK, Custody, NEW j \in Jobs, NEW s \in {"idle", "lock", "record", "unlock", "ownStop", "route"},
         pc' = [pc EXCEPT ![j] = s],
         \A i \in Jobs \ {j} : pos'[i] = pos[i] /\ tx'[i] = tx[i],
         UNCHANGED <<handoff, paused, talkedOver>>
  PROVE  Custody'
<1>1. pc'[j] = s /\ \A i \in Jobs \ {j} : pc'[i] = pc[i]
  BY DEF TypeOK
<1>2. ~Answering(j)' /\ pc'[j] # "stale" /\ ~talkedOver'
  BY <1>1 DEF Answering, Custody
<1> QED
  BY <1>1, <1>2, CustodyOfOthers

(* An answer that leaves while nobody holds the conversation talks over    *)
(* nobody.                                                                 *)
LEMMA LeavesToNobody ==
  ASSUME Custody, NEW j \in Jobs, Answering(j), Leaves(j)
  PROVE  ~talkedOver'
<1>1. ~HeldByPerson(j) /\ ~talkedOver
  BY DEF Custody
<1>2. talkedOver' = (talkedOver \/ HeldByPerson(j))
  BY DEF Leaves
<1> QED
  BY <1>1, <1>2

(* The steps between the record and the commit. *)
LEMMA CustodyMidway ==
  ASSUME TypeOK, Custody, NEW j \in Jobs, Midway(j)
  PROVE  Custody'
<1>a. UNCHANGED <<pos, handoff, paused>> /\ \A i \in Jobs : Cust(i)' = Cust(i)
  BY MidwayFrame, CustStays DEF dataVars
<1>b. \A i \in Jobs : tx[i] \in Transaction
  BY DEF TypeOK
<1>c. \A i \in Jobs \ {j} : pc'[i] = pc[i]
  BY MidwayFrame DEF TypeOK
<1>d. \A i \in Jobs \ {j} : tx'[i] = tx[i]
  <2>1. UNCHANGED tx \/ \E t : tx' = [tx EXCEPT ![j] = t]
    BY DEF Midway, ReleaseStale, Assign, Compose, SendReply, SendRefused, SendUnfinished, Escalate, Fallback,
           Flag, HonourStop, JobIsVictim, Unheard, SendUnheard, FallbackUnheard
  <2> QED
    BY <2>1 DEF TypeOK
<1>e. ~talkedOver'
  <2>1. UNCHANGED talkedOver \/ (Leaves(j) /\ pc[j] \in {"send", "fallback"})
    BY DEF Midway, ReleaseStale, Assign, Compose, SendReply, SendRefused, SendUnfinished, Escalate, Fallback,
           Flag, HonourStop, JobIsVictim, Unheard, SendUnheard, FallbackUnheard, LeavesUnheard, OnShared, historyVars
  <2>2. CASE Leaves(j) /\ pc[j] \in {"send", "fallback"}
    BY <2>2, LeavesToNobody DEF Answering
  <2> QED
    BY <2>1, <2>2 DEF Custody
<1>f. /\ pc'[j] # "stale"
      /\ Answering(j)' => Answering(j) /\ tx'[j].stale = tx[j].stale
  <2> USE DEF OnShared, Goto, Answering, TypeOK
  <2>1. CASE ReleaseStale(j)
    BY <2>1, <1>b DEF ReleaseStale, Transaction
  <2>2. CASE Assign(j)
    BY <2>2 DEF Assign, AfterAssign
  <2>3. CASE Compose(j)
    <3>1. CASE UNCHANGED tx /\ \E s \in {"fallback", "flag"} : Goto(j, s)
      BY <2>3, <3>1 DEF Compose
    <3>2. CASE /\ Goto(j, "send")
               /\ \E R : tx' = [tx EXCEPT ![j].saw = R]
      <4>1. pc[j] = "compose" /\ pc'[j] = "send"
        BY <2>3, <3>2 DEF Compose
      <4>2. tx'[j].stale = tx[j].stale
        BY <3>2, <1>b DEF Transaction
      <4> QED
        BY <4>1, <4>2
    <3> QED
      BY <2>3, <3>1, <3>2 DEF Compose
  <2>4. CASE SendRefused(j)
    BY <2>4 DEF SendRefused
  <2>5. CASE SendReply(j) \/ SendUnfinished(j)
    <3>1. pc'[j] \in {"commit", "escalate", "flag"}
      BY <2>5 DEF SendReply, SendUnfinished
    <3> QED
      BY <3>1
  <2>6. CASE Fallback(j)
    <3>1. pc'[j] \in {"commit", "flag"}
      BY <2>6 DEF Fallback
    <3> QED
      BY <3>1
  <2>7. CASE Escalate(j) \/ Flag(j) \/ HonourStop(j)
    <3>1. pc'[j] = "commit"
      BY <2>7 DEF Escalate, Flag, HonourStop
    <3> QED
      BY <3>1
  <2>8. CASE JobIsVictim(j)
    BY <2>8 DEF JobIsVictim, AfterAssign
  <2>9. CASE SendUnheard(j)
    <3>1. pc[j] = "send" /\ pc'[j] = "fallback" /\ tx'[j].stale = tx[j].stale
      BY <2>9, <1>b DEF SendUnheard, Transaction
    <3> QED
      BY <3>1
  <2>10. CASE FallbackUnheard(j)
    BY <2>10 DEF FallbackUnheard
  <2> QED
    BY <2>1, <2>2, <2>3, <2>4, <2>5, <2>6, <2>7, <2>8, <2>9, <2>10 DEF Midway, Unheard
<1>g. Answering(j)' => ~HeldByPerson(j)'
  BY <1>a, <1>f DEF Custody, HeldByPerson
<1> QED
  BY <1>a, <1>c, <1>d, <1>e, <1>f, <1>g, CustodyOfOthers

LEMMA CustodyStep == TypeOK /\ Rows /\ Custody /\ [Next]_vars => Custody'
<1> SUFFICES ASSUME TypeOK, Rows, Custody, [Next]_vars PROVE Custody'
  OBVIOUS
<1>a. Free \notin Jobs /\ Person \notin Jobs /\ \A i \in Jobs : Cust(i) \in Customers
  BY CurFacts, ConstantsAssumption
<1>b. \A i \in Jobs : Answering(i) => contactRow[Cust(i)] = i /\ line = "shared" /\ ~HeldByPerson(i)
  BY DEF Rows, Custody, Answering, Recorded
<1>c. \A i \in Jobs : tx[i] \in Transaction
  BY DEF TypeOK
<1>1. ASSUME NEW j \in Jobs, Take(j) \/ Acquire(j) \/ Unlock(j) PROVE Custody'
  <2>1. /\ \E s \in {"idle", "lock", "record"} : pc' = [pc EXCEPT ![j] = s]
        /\ UNCHANGED pos \/ pos' = [pos EXCEPT ![j] = @ + 1]
        /\ UNCHANGED tx \/ tx' = [tx EXCEPT ![j] = [NoTx EXCEPT !.start = clock'[Cust(j)]]]
        /\ UNCHANGED <<handoff, paused, talkedOver>>
    BY <1>1 DEF Take, Acquire, Unlock, Goto, queueVars, dataVars, historyVars
  <2>2. \A i \in Jobs \ {j} : pos'[i] = pos[i] /\ tx'[i] = tx[i]
    BY <2>1 DEF TypeOK
  <2> QED
    BY <2>1, <2>2, NotAnswering
<1>2. ASSUME NEW j \in Jobs, GiveUp(j) \/ Break(j) PROVE Custody'
  <2>1. /\ pc' = [pc EXCEPT ![j] = "idle"] /\ pos' = [pos EXCEPT ![j] = 1] /\ tx' = [tx EXCEPT ![j] = NoTx]
        /\ UNCHANGED <<handoff, paused, talkedOver>>
    BY <1>2, Throws DEF Throw, Goto, dataVars
  <2>2. \A i \in Jobs \ {j} : pos'[i] = pos[i] /\ tx'[i] = tx[i]
    BY <2>1 DEF TypeOK
  <2> QED
    BY <2>1, <2>2, NotAnswering
<1>3. ASSUME NEW j \in Jobs, Commit(j) PROVE Custody'
  <2>1. /\ pc[j] = "commit" /\ pc' = [pc EXCEPT ![j] = "unlock"] /\ tx' = [tx EXCEPT ![j] = NoTx]
        /\ \E h : handoff' = [handoff EXCEPT ![Cust(j)] = h]
        /\ UNCHANGED <<pos, paused, talkedOver>>
    BY <1>3 DEF Commit, OnShared, Goto, queueVars
  <2>2. \A i \in Jobs \ {j} : pc'[i] = pc[i] /\ pos'[i] = pos[i] /\ tx'[i] = tx[i]
    BY <2>1 DEF TypeOK
  <2>3. contactRow[Cust(j)] = j
    BY <2>1 DEF Rows, Recorded
  <2>4. \A i \in Jobs \ {j} : Answering(i) => handoff'[Cust(i)] = handoff[Cust(i)]
    BY <2>1, <2>3, <1>a, <1>b DEF TypeOK
  <2>5. pc'[j] = "unlock" /\ ~Answering(j)' /\ ~talkedOver'
    BY <2>1 DEF TypeOK, Answering, Custody
  <2> QED
    BY <2>1, <2>2, <2>4, <2>5, CustodyOfOthers
<1>4. ASSUME NEW j \in Jobs, Record(j) PROVE Custody'
  <2>1. /\ UNCHANGED <<pos, handoff, paused, talkedOver>>
        /\ \A i \in Jobs \ {j} : pc'[i] = pc[i] /\ tx'[i] = tx[i]
    BY <1>4 DEF Record, Goto, TypeOK, queueVars, dataVars, historyVars
  <2>2. /\ pc'[j] = "stale" => tx'[j].stale /\ ~paused[Cust(j)]
        /\ Answering(j)' => pc'[j] = "stale" \/ (~handoff[Cust(j)] /\ ~paused[Cust(j)])
    <3> DEFINE went(s, t) == pc' = [pc EXCEPT ![j] = s] /\ tx' = [tx EXCEPT ![j] = [t EXCEPT !.fresh = stored[Cur(j)] = 0]]
    <3>1. \/ \E s \in {"commit", "stop"} : \E t : went(s, t)
          \/ ~handoff[Cust(j)] /\ ~paused[Cust(j)] /\ went("assign", tx[j])
          \/ went("assign", [tx[j] EXCEPT !.due = TRUE])
          \/ ~paused[Cust(j)] /\ went("stale", [tx[j] EXCEPT !.stale = TRUE])
      BY <1>4 DEF Record, Goto
    <3>2. CASE \E s \in {"commit", "stop"} : \E t : went(s, t)
      BY <3>2 DEF TypeOK, Answering
    <3>3. CASE ~handoff[Cust(j)] /\ ~paused[Cust(j)] /\ went("assign", tx[j])
      BY <3>3 DEF TypeOK
    <3>4. CASE went("assign", [tx[j] EXCEPT !.due = TRUE])
      <4>1. pc'[j] = "assign" /\ tx'[j].due
        BY <3>4, <1>c DEF TypeOK, Transaction
      <4> QED
        BY <4>1 DEF Answering
    <3>5. CASE ~paused[Cust(j)] /\ went("stale", [tx[j] EXCEPT !.stale = TRUE])
      <4>1. pc'[j] = "stale" /\ tx'[j].stale
        BY <3>5, <1>c DEF TypeOK, Transaction
      <4> QED
        BY <4>1, <3>5
    <3> HIDE DEF went
    <3> QED
      BY <3>1, <3>2, <3>3, <3>4, <3>5
  <2>3. Cust(j)' = Cust(j)
    BY <2>1, CustStays
  <2>4. Answering(j)' => ~HeldByPerson(j)'
    BY <2>1, <2>2, <2>3 DEF HeldByPerson
  <2>5. ~talkedOver'
    BY <2>1 DEF Custody
  <2> QED
    BY <2>1, <2>2, <2>4, <2>5, CustodyOfOthers
<1>5. ASSUME NEW j \in Jobs, RecordUnsure(j) PROVE Custody'
  <2>1. /\ pc' = [pc EXCEPT ![j] = "commit"] /\ UNCHANGED <<pos, tx, handoff, paused, talkedOver>>
    BY <1>5 DEF RecordUnsure, Goto, queueVars, dataVars, historyVars
  <2>2. pc'[j] = "commit" /\ ~Answering(j)' /\ ~talkedOver' /\ \A i \in Jobs \ {j} : pc'[i] = pc[i]
    BY <2>1 DEF TypeOK, Answering, Custody
  <2> QED
    BY <2>1, <2>2, CustodyOfOthers
<1>6. ASSUME NEW j \in Jobs, Midway(j) PROVE Custody'
  BY <1>6, CustodyMidway
<1>7. ASSUME NEW j \in Jobs, RecordOwn(j) \/ HonourOwnStop(j) PROVE Custody'
  <2>1. /\ \E s \in {"unlock", "ownStop", "route"} : pc' = [pc EXCEPT ![j] = s]
        /\ UNCHANGED tx \/ tx' = [tx EXCEPT ![j] = NoTx]
        /\ UNCHANGED <<pos, handoff, paused, talkedOver>>
    BY <1>7 DEF RecordOwn, HonourOwnStop, Goto, queueVars, historyVars
  <2>2. \A i \in Jobs \ {j} : pos'[i] = pos[i] /\ tx'[i] = tx[i]
    BY <2>1 DEF TypeOK
  <2> QED
    BY <2>1, <2>2, NotAnswering
<1>8. ASSUME NEW j \in Jobs, RouteOwn(j) PROVE Custody'
  <2>1. /\ pc[j] = "route" /\ pc' = [pc EXCEPT ![j] = "unlock"]
        /\ UNCHANGED <<pos, tx, paused, talkedOver>>
    BY <1>8 DEF RouteOwn, Goto, queueVars, historyVars
  <2>2. \A i \in Jobs : ~Answering(i)
    BY <2>1, <1>b DEF Rows
  <2>3. /\ pc'[j] = "unlock" /\ ~Answering(j)' /\ ~talkedOver'
        /\ \A i \in Jobs \ {j} : pc'[i] = pc[i]
    BY <2>1 DEF TypeOK, Answering, Custody
  <2> QED
    BY <2>1, <2>2, <2>3, CustodyOfOthers
<1>9. ASSUME NEW c \in Customers, PersonCommits(c) PROVE Custody'
  <2>1. UNCHANGED <<pc, pos, tx, talkedOver>>
    BY <1>9, PeopleStandAside DEF PersonActs
  <2>2. /\ contactRow[c] \in {Free, Person}
        /\ \E h, p : /\ handoff' = [handoff EXCEPT ![c] = h] \/ UNCHANGED handoff
                     /\ paused' = [paused EXCEPT ![c] = p]
    BY <1>9 DEF PersonCommits, Rows
  <2>3. \A i \in Jobs : Answering(i) =>
          Cust(i) # c /\ handoff'[Cust(i)] = handoff[Cust(i)] /\ paused'[Cust(i)] = paused[Cust(i)]
    BY <2>2, <1>a, <1>b DEF TypeOK
  <2>4. \A i \in Jobs : Cust(i)' = Cust(i) /\ (Answering(i)' <=> Answering(i))
    BY <2>1, CustStays DEF Answering
  <2>5. \A i \in Jobs : Answering(i)' => ~HeldByPerson(i)'
    BY <2>1, <2>3, <2>4, <1>b DEF HeldByPerson
  <2> QED
    BY <2>1, <2>5 DEF Custody
<1>10. ASSUME NEW c \in Customers, PauseEnds(c) PROVE Custody'
  <2>1. UNCHANGED <<pc, pos, tx, talkedOver, handoff>> /\ paused' = [paused EXCEPT ![c] = FALSE]
    BY <1>10 DEF PauseEnds, queueVars, historyVars
  <2>2. \A i \in Jobs : /\ Cust(i)' = Cust(i) /\ (Answering(i)' <=> Answering(i))
                        /\ paused'[Cust(i)] => paused[Cust(i)]
    BY <2>1, <1>a, CustStays DEF Answering, TypeOK
  <2>3. \A i \in Jobs : Answering(i)' => ~HeldByPerson(i)'
    BY <2>1, <2>2, <1>b DEF HeldByPerson
  <2> QED
    BY <2>1, <2>3 DEF Custody
<1>11. ASSUME NEW c \in Customers, \/ Expire(c) \/ Lapse(c) \/ PersonIsVictim(c)
                                   \/ \E act \in {"reply", "take", "giveBack"} : PersonStarts(c, act)
       PROVE  Custody'
  <2>1. UNCHANGED <<pc, pos, tx, talkedOver, handoff, paused>>
    BY <1>11 DEF Expire, Lapse, PersonIsVictim, PersonStarts, queueVars, dataVars, historyVars
  <2> QED
    BY <2>1 DEF Custody, Answering, HeldByPerson, Cust, Cur
<1>12. CASE Crash
  <2>1. pc' = [i \in Jobs |-> "idle"] /\ UNCHANGED talkedOver
    BY <1>12 DEF Crash
  <2> QED
    BY <2>1 DEF Custody, Answering
<1>13. CASE UNCHANGED vars
  <2>1. UNCHANGED <<pc, pos, tx, talkedOver, handoff, paused>>
    BY <1>13 DEF vars, queueVars, dataVars, historyVars
  <2> QED
    BY <2>1 DEF Custody, Answering, HeldByPerson, Cust, Cur
<1> QED
  BY <1>1, <1>2, <1>3, <1>4, <1>5, <1>6, <1>7, <1>8, <1>9, <1>10, <1>11, <1>12, <1>13, Steps
  DEF Handle, Midway, Unheard, PersonActs

-----------------------------------------------------------------------------
LEMMA Inductive == Spec => []IInv
<1>1. IInv /\ [Next]_vars => IInv'
  BY TypeStep, QueueStep, LocksStep, RowsStep, CustodyStep DEF IInv
<1> QED
  BY <1>1, InitIInv, PTL DEF Spec

(* Every variable keeps its type: in particular, no job is attempted more  *)
(* often than the queue allows (queue.ts, attempts), and none is at a      *)
(* message that its batch does not have.                                   *)
THEOREM TypeCorrect == Spec => []TypeOK
<1>1. IInv => TypeOK
  BY DEF IInv
<1> QED
  BY <1>1, Inductive, PTL

(* A job whose lock has not lapsed under it holds its customer's lock for  *)
(* as long as it is at the message, and no other job's release frees it    *)
(* (conversation-lock.ts, RELEASE), whatever lapses or crashes.            *)
THEOREM LockIsItsHolders == Spec => []HolderIsInside
<1>1. IInv => HolderIsInside
  BY CurFacts DEF IInv, Locks, HolderIsInside
<1> QED
  BY <1>1, Inductive, PTL

(* The agent never answers a customer whom a person has taken, even when   *)
(* two jobs are at the same customer because a lock lapsed: the contact's  *)
(* row, not the lock, is what keeps persons out until the answer has left  *)
(* (processor.ts 1019-1070, gateway/reply.ts).                             *)
THEOREM NobodyIsTalkedOver == Spec => []NobodyTalksOver
<1>1. IInv => NobodyTalksOver
  BY DEF IInv, Custody, NobodyTalksOver
<1> QED
  BY <1>1, Inductive, PTL
-----------------------------------------------------------------------------
(* What each answer that left comes to.  An answer is out while the        *)
(* transaction that sent it is open.                                       *)
Out(m) == \E j \in Jobs : tx[j].sent /\ Cur(j) = m

(* What a job's transaction has noted of its message is true until it      *)
(* ends; and what it answers, or has answered, is not yet known.           *)
TurnOf(j) ==
  /\ pc[j] \in Recorded \cup {"record"} => tx[j].start > 0
  /\ pc[j] = "record" => ~tx[j].fresh
  /\ pc[j] \in Recorded => (tx[j].fresh <=> stored[Cur(j)] = 0)
  /\ tx[j].sent => pc[j] \in {"escalate", "flag", "commit"}
  /\ pc[j] \in {"stop", "ownStop"} => Cur(j) \in Stops
  /\ pc[j] \in Recorded \ {"stop", "commit"} => Cur(j) \notin Stops
  /\ tx[j].sent => IF Cur(j) \in Stops THEN tx[j].stop ELSE tx[j].reply \/ Cur(j) \in offRecord
  /\ pc[j] \in Recorded \ {"stop", "commit"} \/ (tx[j].sent /\ Cur(j) \notin Stops) => ~Known(Cur(j))

(* The answers to a message are forgotten, but one; and that one is out,   *)
(* known, or a stop that was honoured.  One that is in nobody's history is *)
(* out or off the record.                                                  *)
AccountOf(m) ==
  /\ m \in Stops => \/ From[m] \in optedOut
                    \/ answers[m] <= forgotten[m]
                    \/ Out(m) /\ answers[m] <= forgotten[m] + 1
  /\ m \notin Stops => /\ Out(m) => answers[m] = forgotten[m] + 1
                       /\ \/ answers[m] = forgotten[m]
                          \/ (Out(m) \/ Known(m)) /\ answers[m] = forgotten[m] + 1
  /\ m \notin Stops \cup offRecord => answers[m] = 0 \/ repliedAt[m] > 0 \/ Out(m)

Turns    == \A j \in Jobs : TurnOf(j)
Accounts == \A m \in Messages : AccountOf(m)

(* A transaction is as late as any of its customer's, while no lock has    *)
(* lapsed; and who sent an answer and commits has a metric row to write.   *)
ClockOf(j) ==
  /\ pc[j] \in Recorded \cup {"record"} =>
       tx[j].start <= clock[Cust(j)] /\ (troubles = 0 => tx[j].start = clock[Cust(j)])
  /\ tx[j].sent /\ pc[j] \in {"escalate", "commit"} /\ Cur(j) \notin Stops => tx[j].due

Clocks ==
  /\ \A m \in Messages : stored[m] <= clock[From[m]]
  /\ \A j \in Jobs : ClockOf(j)
  /\ troubles = 0 => overstayed = {} /\ \A m \in Messages : forgotten[m] = 0

IInv2 == IInv /\ Turns /\ Accounts /\ Clocks /\ HistoryIsWhole

LEMMA InitIInv2 == Init => IInv2
<1> SUFFICES ASSUME Init PROVE IInv2
  OBVIOUS
<1>1. Turns
  BY DEF Init, Turns, TurnOf, Recorded, NoTx
<1>2. Accounts
  BY DEF Init, Accounts, AccountOf, Out, NoTx
<1>3. HistoryIsWhole
  BY DEF Init, HistoryIsWhole
<1>4. Clocks
  BY ConstantsAssumption DEF Init, Clocks, ClockOf, Recorded, NoTx
<1> QED
  BY <1>1, <1>2, <1>3, <1>4, InitIInv DEF IInv2

(* Two transactions are never at one customer at a time. *)
LEMMA OneAtACustomer ==
  ASSUME Rows, NEW i \in Jobs, NEW j \in Jobs, pc[i] \in Recorded, pc[j] \in Recorded, Cust(i) = Cust(j)
  PROVE  i = j
BY DEF Rows

(* While a transaction is at a message, what is out of it is its own.      *)
LEMMA OutIsOwn ==
  ASSUME Rows, Turns, NEW j \in Jobs, pc[j] \in Recorded, NEW m, From[m] = Cust(j), Out(m)
  PROVE  tx[j].sent /\ Cur(j) = m
<1>1. PICK k \in Jobs : tx[k].sent /\ Cur(k) = m
  BY DEF Out
<1>2. pc[k] \in Recorded /\ Cust(k) = Cust(j)
  BY <1>1 DEF Turns, TurnOf, Recorded, Cust
<1> QED
  BY <1>1, <1>2, OneAtACustomer

(* An answer of which the job is not told.                                 *)
Unnoticed(j) == /\ Unheard(j) /\ pc[j] \in {"send", "fallback"} /\ ~tx[j].sent /\ ~tx'[j].sent
                /\ answers'   = [answers EXCEPT ![Cur(j)] = @ + 1]
                /\ forgotten' = [forgotten EXCEPT ![Cur(j)] = @ + 1]
                /\ Cur(j) \in offRecord' /\ Trouble

(* What a step between the record and the commit does to its transaction:  *)
(* an answer leaves only if none had left in it before, and what left has  *)
(* its row or is off the record.                                           *)
LEMMA MidwayWork ==
  ASSUME TypeOK, Turns, NEW j \in Jobs, Midway(j)
  PROVE  /\ \A i \in Jobs \ {j} : tx'[i] = tx[i]
         /\ tx'[j].start = tx[j].start /\ tx'[j].fresh = tx[j].fresh
         /\ pc[j] \in Recorded \ {"commit"} /\ pc'[j] \in Recorded \ {"stop"}
         /\ pc[j] = "stop" => pc'[j] = "commit"
         /\ tx'[j].sent => pc'[j] \in {"escalate", "flag", "commit"}
         /\ \/ tx'[j].sent = tx[j].sent /\ UNCHANGED <<answers, forgotten>>
            \/ ~tx[j].sent /\ tx'[j].sent /\ answers' = [answers EXCEPT ![Cur(j)] = @ + 1] /\ UNCHANGED forgotten
            \/ Unnoticed(j)
         /\ tx'[j].sent => IF pc[j] = "stop" THEN tx'[j].stop ELSE tx'[j].reply \/ Cur(j) \in offRecord'
         /\ offRecord \subseteq offRecord'
<1> DEFINE
      Same  == tx'[j].start = tx[j].start /\ tx'[j].fresh = tx[j].fresh
      Goes  == /\ pc[j] \in Recorded \ {"commit"} /\ pc'[j] \in Recorded \ {"stop"}
               /\ pc[j] = "stop" => pc'[j] = "commit"
               /\ tx'[j].sent => pc'[j] \in {"escalate", "flag", "commit"}
      Sends == /\ \/ tx'[j].sent = tx[j].sent /\ UNCHANGED answers
                  \/ ~tx[j].sent /\ tx'[j].sent /\ answers' = [answers EXCEPT ![Cur(j)] = @ + 1]
               /\ UNCHANGED forgotten
      Told  == /\ tx'[j].sent => IF pc[j] = "stop" THEN tx'[j].stop ELSE tx'[j].reply \/ Cur(j) \in offRecord'
               /\ offRecord \subseteq offRecord'
<1>a. tx[j] \in Transaction
  BY DEF TypeOK
<1>b. /\ tx[j].sent => pc[j] \in {"escalate", "flag", "commit"}
      /\ pc[j] # "stop" /\ pc[j] # "commit" /\ tx[j].sent => tx[j].reply \/ Cur(j) \in offRecord
  BY DEF Turns, TurnOf, Recorded
<1>c. \A i \in Jobs \ {j} : tx'[i] = tx[i]
  <2>1. UNCHANGED tx \/ \E t : tx' = [tx EXCEPT ![j] = t]
    BY DEF Midway, ReleaseStale, Assign, Compose, SendReply, SendRefused, SendUnfinished, Escalate, Fallback,
           Flag, HonourStop, JobIsVictim, Unheard, SendUnheard, FallbackUnheard
  <2> QED
    BY <2>1 DEF TypeOK
<1> USE DEF OnShared, Goto, TypeOK, Recorded, historyVars
<1>1. CASE ReleaseStale(j)
  <2>1. /\ tx' = [tx EXCEPT ![j] = [tx[j] EXCEPT !.custody = "release"]]
        /\ pc[j] = "stale" /\ pc'[j] = "assign" /\ UNCHANGED <<answers, offRecord, forgotten>>
    BY <1>1 DEF ReleaseStale
  <2>2. Same /\ tx'[j].sent = tx[j].sent /\ ~tx[j].sent
    BY <2>1, <1>a, <1>b DEF Transaction
  <2> QED
    BY <1>c, <2>1, <2>2
<1>2. CASE Assign(j)
  <2>1. UNCHANGED <<tx, answers, offRecord, forgotten>> /\ pc[j] = "assign" /\ pc'[j] \in {"commit", "compose"}
    BY <1>2 DEF Assign, AfterAssign
  <2> QED
    BY <1>c, <2>1, <1>b
<1>3. CASE Compose(j)
  <2>1. /\ pc[j] = "compose" /\ pc'[j] \in {"send", "fallback", "flag"} /\ UNCHANGED <<answers, offRecord, forgotten>>
        /\ UNCHANGED tx \/ \E R : tx' = [tx EXCEPT ![j] = [tx[j] EXCEPT !.saw = R]]
    BY <1>3 DEF Compose
  <2>2. Same /\ tx'[j].sent = tx[j].sent /\ ~tx[j].sent
    BY <2>1, <1>a, <1>b DEF Transaction
  <2> QED
    BY <1>c, <2>1, <2>2
<1>4. CASE SendReply(j)
  <2>1. /\ pc[j] = "send" /\ pc'[j] \in {"commit", "escalate"} /\ UNCHANGED <<offRecord, forgotten>>
        /\ tx' = [tx EXCEPT ![j] = [tx[j] EXCEPT !.sent = TRUE, !.reply = TRUE, !.due = TRUE]]
        /\ answers' = [answers EXCEPT ![Cur(j)] = @ + 1]
    BY <1>4 DEF SendReply, Leaves
  <2>2. Same /\ tx'[j].sent /\ tx'[j].reply /\ ~tx[j].sent
    BY <2>1, <1>a, <1>b DEF Transaction
  <2> QED
    BY <1>c, <2>1, <2>2
<1>5. CASE SendRefused(j)
  <2>1. UNCHANGED <<tx, answers, offRecord, forgotten>> /\ pc[j] = "send" /\ pc'[j] = "fallback"
    BY <1>5 DEF SendRefused
  <2> QED
    BY <1>c, <2>1, <1>b
<1>6. CASE SendUnfinished(j)
  <2>1. /\ pc[j] = "send" /\ pc'[j] = "flag" /\ UNCHANGED forgotten
        /\ answers' = [answers EXCEPT ![Cur(j)] = @ + 1]
    BY <1>6 DEF SendUnfinished, Leaves
  <2>2. PICK kept \in BOOLEAN :
          /\ tx' = [tx EXCEPT ![j] = [tx[j] EXCEPT !.sent = TRUE, !.reply = kept]]
          /\ offRecord' = IF kept THEN offRecord ELSE offRecord \cup {Cur(j)}
    BY <1>6 DEF SendUnfinished
  <2>3. Same /\ tx'[j].sent /\ tx'[j].reply = kept /\ ~tx[j].sent
    BY <2>1, <2>2, <1>a, <1>b DEF Transaction
  <2>4. (tx'[j].reply \/ Cur(j) \in offRecord') /\ offRecord \subseteq offRecord'
    BY <2>2, <2>3
  <2> QED
    BY <1>c, <2>1, <2>3, <2>4
<1>7. CASE Escalate(j)
  <2>1. /\ tx' = [tx EXCEPT ![j] = [tx[j] EXCEPT !.custody = "take"]]
        /\ pc[j] = "escalate" /\ pc'[j] = "commit" /\ UNCHANGED <<answers, offRecord, forgotten>>
    BY <1>7 DEF Escalate
  <2>2. Same /\ tx'[j].sent = tx[j].sent /\ tx'[j].reply = tx[j].reply
    BY <2>1, <1>a DEF Transaction
  <2> QED
    BY <1>c, <2>1, <2>2, <1>b
<1>8. CASE Fallback(j)
  <2>1. pc[j] = "fallback" /\ ~tx[j].sent /\ UNCHANGED forgotten
    BY <1>8, <1>b DEF Fallback
  <2>2. CASE /\ Leaves(j) /\ Goto(j, "flag") /\ UNCHANGED offRecord
             /\ tx' = [tx EXCEPT ![j] = [tx[j] EXCEPT !.sent = TRUE, !.reply = TRUE]]
    <3>1. Same /\ tx'[j].sent /\ tx'[j].reply
      BY <2>2, <1>a DEF Transaction
    <3>2. pc'[j] = "flag" /\ answers' = [answers EXCEPT ![Cur(j)] = @ + 1]
      BY <2>2 DEF Leaves
    <3> QED
      BY <1>c, <2>1, <2>2, <3>1, <3>2
  <2>3. CASE /\ Leaves(j) /\ Goto(j, "commit")
             /\ \E kept \in BOOLEAN :
                  /\ tx' = [tx EXCEPT ![j] = [tx[j] EXCEPT !.sent = TRUE, !.reply = kept, !.due = TRUE]]
                  /\ offRecord' = IF kept THEN offRecord ELSE offRecord \cup {Cur(j)}
    <3>1. PICK kept \in BOOLEAN :
            /\ tx' = [tx EXCEPT ![j] = [tx[j] EXCEPT !.sent = TRUE, !.reply = kept, !.due = TRUE]]
            /\ offRecord' = IF kept THEN offRecord ELSE offRecord \cup {Cur(j)}
      BY <2>3
    <3>2. Same /\ tx'[j].sent /\ tx'[j].reply = kept
      BY <3>1, <1>a DEF Transaction
    <3>3. (tx'[j].reply \/ Cur(j) \in offRecord') /\ offRecord \subseteq offRecord'
      BY <3>1, <3>2
    <3>4. pc'[j] = "commit" /\ answers' = [answers EXCEPT ![Cur(j)] = @ + 1]
      BY <2>3 DEF Leaves
    <3> QED
      BY <1>c, <2>1, <3>2, <3>3, <3>4
  <2>4. CASE /\ Goto(j, "commit") /\ UNCHANGED <<answers, offRecord>>
             /\ tx' = [tx EXCEPT ![j] = [tx[j] EXCEPT !.due = TRUE]]
    <3>1. Same /\ tx'[j].sent = tx[j].sent /\ pc'[j] = "commit"
      BY <2>4, <1>a DEF Transaction
    <3> QED
      BY <1>c, <2>1, <2>4, <3>1
  <2> QED
    BY <1>8, <2>2, <2>3, <2>4 DEF Fallback
<1>9. CASE Flag(j)
  <2>1. /\ \/ tx' = [tx EXCEPT ![j] = [tx[j] EXCEPT !.due = TRUE, !.custody = "take"]]
           \/ tx' = [tx EXCEPT ![j] = [tx[j] EXCEPT !.due = TRUE]]
        /\ pc[j] = "flag" /\ pc'[j] = "commit" /\ UNCHANGED <<answers, offRecord, forgotten>>
    BY <1>9 DEF Flag
  <2>2. Same /\ tx'[j].sent = tx[j].sent /\ tx'[j].reply = tx[j].reply
    <3>1. CASE tx' = [tx EXCEPT ![j] = [tx[j] EXCEPT !.due = TRUE, !.custody = "take"]]
      BY <3>1, <1>a DEF Transaction
    <3>2. CASE tx' = [tx EXCEPT ![j] = [tx[j] EXCEPT !.due = TRUE]]
      BY <3>2, <1>a DEF Transaction
    <3> QED
      BY <2>1, <3>1, <3>2
  <2> QED
    BY <1>c, <2>1, <2>2, <1>b
<1>10. CASE HonourStop(j)
  <2>1. pc[j] = "stop" /\ ~tx[j].sent /\ pc'[j] = "commit" /\ UNCHANGED <<offRecord, forgotten>>
    BY <1>10, <1>b DEF HonourStop
  <2>2. \/ /\ tx' = [tx EXCEPT ![j] = [tx[j] EXCEPT !.stop = TRUE, !.sent = TRUE]]
           /\ answers' = [answers EXCEPT ![Cur(j)] = @ + 1]
        \/ /\ tx' = [tx EXCEPT ![j] = [tx[j] EXCEPT !.stop = TRUE]] \/ tx' = [tx EXCEPT ![j] = [tx[j] EXCEPT !.due = TRUE]]
           /\ UNCHANGED answers
    BY <1>10 DEF HonourStop, NotConfirmed
  <2>3. Same /\ Sends /\ (tx'[j].sent => tx'[j].stop)
    <3>1. CASE /\ tx' = [tx EXCEPT ![j] = [tx[j] EXCEPT !.stop = TRUE, !.sent = TRUE]]
               /\ answers' = [answers EXCEPT ![Cur(j)] = @ + 1]
      <4>1. Same /\ tx'[j].sent /\ tx'[j].stop
        BY <3>1, <1>a DEF Transaction
      <4> QED
        BY <2>1, <3>1, <4>1
    <3>2. CASE tx' = [tx EXCEPT ![j] = [tx[j] EXCEPT !.stop = TRUE]] /\ UNCHANGED answers
      <4>1. Same /\ tx'[j].sent = tx[j].sent
        BY <3>2, <1>a DEF Transaction
      <4> QED
        BY <2>1, <3>2, <4>1
    <3>3. CASE tx' = [tx EXCEPT ![j] = [tx[j] EXCEPT !.due = TRUE]] /\ UNCHANGED answers
      <4>1. Same /\ tx'[j].sent = tx[j].sent
        BY <3>3, <1>a DEF Transaction
      <4> QED
        BY <2>1, <3>3, <4>1
    <3> QED
      BY <2>2, <3>1, <3>2, <3>3
  <2> QED
    BY <1>c, <2>1, <2>3
<1>11. CASE JobIsVictim(j)
  <2>1. UNCHANGED <<answers, forgotten>>
    BY <1>11 DEF JobIsVictim
  <2>2. CASE pc[j] = "stale" /\ Goto(j, "assign") /\ UNCHANGED <<tx, offRecord>>
    BY <1>b, <1>c, <2>1, <2>2
  <2>3. CASE pc[j] = "assign" /\ Goto(j, AfterAssign(j)) /\ UNCHANGED <<tx, offRecord>>
    BY <1>b, <1>c, <2>1, <2>3 DEF AfterAssign
  <2>4. CASE /\ pc[j] = "escalate" /\ Goto(j, "flag")
             /\ tx' = [tx EXCEPT ![j] = [tx[j] EXCEPT !.reply = FALSE]]
             /\ offRecord' = offRecord \cup {Cur(j)}
    <3>1. Same /\ tx'[j].sent = tx[j].sent
      BY <2>4, <1>a DEF Transaction
    <3> QED
      BY <1>c, <2>1, <2>4, <3>1
  <2>5. CASE /\ pc[j] = "flag" /\ Goto(j, "commit") /\ UNCHANGED offRecord
             /\ tx' = [tx EXCEPT ![j] = [tx[j] EXCEPT !.due = TRUE]]
    <3>1. Same /\ tx'[j].sent = tx[j].sent /\ tx'[j].reply = tx[j].reply
      BY <2>5, <1>a DEF Transaction
    <3> QED
      BY <1>b, <1>c, <2>1, <2>5, <3>1
  <2> QED
    BY <1>11, <2>2, <2>3, <2>4, <2>5 DEF JobIsVictim
<1>12. CASE SendUnheard(j)
  <2>1. /\ tx' = tx /\ LeavesUnheard(j)
        /\ pc[j] = "send" /\ pc'[j] = "fallback" /\ Cur(j) \in Messages
    BY <1>12, CurFacts DEF SendUnheard
  <2>2. Same /\ ~tx'[j].sent /\ ~tx[j].sent
    BY <2>1, <1>a, <1>b DEF Transaction
  <2>3. Unnoticed(j) /\ offRecord \subseteq offRecord'
    BY <1>12, <2>1, <2>2 DEF Unnoticed, Unheard, LeavesUnheard, Leaves
  <2> QED
    BY <1>c, <2>1, <2>2, <2>3
<1>13. CASE FallbackUnheard(j)
  <2>1. /\ tx' = [tx EXCEPT ![j] = [tx[j] EXCEPT !.due = TRUE]] /\ LeavesUnheard(j)
        /\ pc[j] = "fallback" /\ pc'[j] = "commit" /\ Cur(j) \in Messages
    BY <1>13, CurFacts DEF FallbackUnheard
  <2>2. Same /\ ~tx'[j].sent /\ ~tx[j].sent
    BY <2>1, <1>a, <1>b DEF Transaction
  <2>3. Unnoticed(j) /\ offRecord \subseteq offRecord'
    BY <1>13, <2>1, <2>2 DEF Unnoticed, Unheard, LeavesUnheard, Leaves
  <2> QED
    BY <1>c, <2>1, <2>2, <2>3
<1> QED
  BY <1>1, <1>2, <1>3, <1>4, <1>5, <1>6, <1>7, <1>8, <1>9, <1>10, <1>11, <1>12, <1>13 DEF Midway, Unheard

(* A step of job j leaves what the other transactions have noted.          *)
LEMMA TurnOfOthers ==
  ASSUME Turns, NEW j \in Jobs, TurnOf(j)', UNCHANGED input, offRecord \subseteq offRecord',
         \A i \in Jobs \ {j} : pc'[i] = pc[i] /\ pos'[i] = pos[i] /\ tx'[i] = tx[i],
         \A i \in Jobs \ {j} : pc[i] \in Recorded =>
           stored'[Cur(i)] = stored[Cur(i)] /\ lastMetric'[Cust(i)] = lastMetric[Cust(i)]
  PROVE  Turns'
<1> SUFFICES ASSUME NEW i \in Jobs PROVE TurnOf(i)'
  BY DEF Turns
<1>1. CASE i = j
  BY <1>1
<1>2. CASE i # j
  <2>1. /\ TurnOf(i) /\ pc'[i] = pc[i] /\ tx'[i] = tx[i] /\ Cur(i)' = Cur(i) /\ Stops' = Stops
        /\ Cur(i) \in offRecord => Cur(i)' \in offRecord'
    BY <1>2, CustStays DEF Turns, Stops
  <2>2. pc[i] \in Recorded => (Known(Cur(i))' <=> Known(Cur(i))) /\ stored'[Cur(i)'] = stored[Cur(i)]
    BY <1>2, <2>1 DEF Known, Cust
  <2>3. tx[i].sent => pc[i] \in Recorded
    BY <2>1 DEF TurnOf, Recorded
  <2> QED
    BY <2>1, <2>2, <2>3 DEF TurnOf
<1> QED
  BY <1>1, <1>2

(* A job that is out of its transaction has nothing to note.               *)
LEMMA TurnAtRest ==
  ASSUME NEW j \in Jobs, pc'[j] \in {"idle", "lock", "record", "unlock", "ownStop", "route"}, ~tx'[j].sent,
         pc'[j] = "record" => tx'[j].start > 0 /\ ~tx'[j].fresh,
         pc'[j] = "ownStop" => Cur(j)' \in Stops'
  PROVE  TurnOf(j)'
BY DEF TurnOf, Recorded

LEMMA TurnMidway ==
  ASSUME TypeOK, Turns, NEW j \in Jobs, Midway(j)
  PROVE  TurnOf(j)'
<1>1. TurnOf(j) /\ UNCHANGED <<input, pos, stored, lastMetric>> /\ Cur(j)' = Cur(j)
  BY MidwayFrame, CustStays DEF Turns, dataVars
<1>2. Stops' = Stops /\ (Known(Cur(j))' <=> Known(Cur(j)))
  BY <1>1 DEF Stops, Known
<1>3. pc[j] = "stop" => Cur(j) \in Stops
  BY <1>1 DEF TurnOf
<1>4. pc[j] # "stop" => Cur(j) \notin Stops /\ ~Known(Cur(j))
  BY <1>1, MidwayWork DEF TurnOf
<1>5. pc'[j] # "record" /\ pc'[j] # "ownStop" /\ pc'[j] # "stop"
  BY MidwayWork DEF Recorded
<1> QED
  BY <1>1, <1>2, <1>3, <1>4, <1>5, MidwayWork DEF TurnOf

(* What the record reads of its message.                                   *)
LEMMA TurnBegins ==
  ASSUME TypeOK, Turns, NEW j \in Jobs, Record(j) \/ RecordUnsure(j)
  PROVE  /\ TurnOf(j)' /\ \A i \in Jobs \ {j} : pc'[i] = pc[i] /\ tx'[i] = tx[i]
         /\ UNCHANGED <<input, pos, dataVars, answers, forgotten, offRecord>>
         /\ ~tx[j].sent /\ ~tx'[j].sent /\ pc'[j] # "send" /\ tx'[j].start = tx[j].start
<1>a. tx[j] \in Transaction /\ tx[j].start > 0 /\ ~tx[j].fresh /\ ~tx[j].sent /\ pc[j] = "record"
  BY DEF TypeOK, Turns, TurnOf, Record, RecordUnsure, OnShared
<1>b. /\ UNCHANGED <<input, pos, stored, lastMetric>> /\ Cur(j)' = Cur(j)
      /\ UNCHANGED <<input, pos, dataVars, answers, forgotten, offRecord>>
  BY CustStays DEF Record, RecordUnsure, queueVars, dataVars, historyVars
<1>c. Stops' = Stops /\ (Known(Cur(j))' <=> Known(Cur(j))) /\ (AccountedFor(j) <=> Known(Cur(j)))
  BY <1>b DEF Stops, Known, AccountedFor
<1>1. CASE Record(j)
  <2> DEFINE went(s, t) == pc' = [pc EXCEPT ![j] = s] /\ tx' = [tx EXCEPT ![j] = [t EXCEPT !.fresh = stored[Cur(j)] = 0]]
  <2>1. \/ went("commit", tx[j])
        \/ ~AccountedFor(j) /\ Cur(j) \in Stops /\ went("stop", tx[j])
        \/ /\ ~AccountedFor(j) /\ Cur(j) \notin Stops
           /\ \E s \in {"assign", "stale", "commit"} :
                \/ went(s, tx[j]) \/ went(s, [tx[j] EXCEPT !.due = TRUE]) \/ went(s, [tx[j] EXCEPT !.stale = TRUE])
    BY <1>1 DEF Record, Goto
  <2>2. ASSUME NEW s, NEW t, t \in {tx[j], [tx[j] EXCEPT !.due = TRUE], [tx[j] EXCEPT !.stale = TRUE]}, went(s, t)
        PROVE  /\ pc'[j] = s /\ tx'[j].start = tx[j].start /\ ~tx'[j].sent /\ (tx'[j].fresh <=> stored[Cur(j)] = 0)
               /\ \A i \in Jobs \ {j} : pc'[i] = pc[i] /\ tx'[i] = tx[i]
    <3>1. t \in Transaction /\ t.start = tx[j].start /\ t.sent = tx[j].sent
      BY <2>2, <1>a DEF Transaction
    <3>2. pc'[j] = s /\ tx'[j] = [t EXCEPT !.fresh = stored[Cur(j)] = 0]
      BY <2>2 DEF TypeOK
    <3>3. tx'[j].start = t.start /\ tx'[j].sent = t.sent /\ tx'[j].fresh = (stored[Cur(j)] = 0)
      BY <3>1, <3>2 DEF Transaction
    <3>4. \A i \in Jobs \ {j} : pc'[i] = pc[i] /\ tx'[i] = tx[i]
      BY <2>2 DEF TypeOK
    <3> QED
      BY <1>a, <3>1, <3>2, <3>3, <3>4
  <2>3. /\ \/ pc'[j] = "commit"
           \/ ~AccountedFor(j) /\ Cur(j) \in Stops /\ pc'[j] = "stop"
           \/ ~AccountedFor(j) /\ Cur(j) \notin Stops /\ pc'[j] \in {"assign", "stale", "commit"}
        /\ tx'[j].start = tx[j].start /\ ~tx'[j].sent /\ (tx'[j].fresh <=> stored[Cur(j)] = 0)
        /\ \A i \in Jobs \ {j} : pc'[i] = pc[i] /\ tx'[i] = tx[i]
    <3> HIDE DEF went
    <3> QED
      BY <2>1, <2>2
  <2>4. TurnOf(j)'
    BY <2>3, <1>a, <1>b, <1>c DEF TurnOf, Recorded
  <2> QED
    BY <2>3, <2>4, <1>a, <1>b
<1>2. CASE RecordUnsure(j)
  <2>1. pc'[j] = "commit" /\ UNCHANGED tx /\ stored[Cur(j)] > 0 /\ \A i \in Jobs \ {j} : pc'[i] = pc[i]
    BY <1>2 DEF RecordUnsure, Goto, TypeOK
  <2>2. stored[Cur(j)] # 0
    BY <2>1
  <2> QED
    BY <2>1, <2>2, <1>a, <1>b, <1>c DEF TurnOf, Recorded
<1> QED
  BY <1>1, <1>2

(* The commit of one customer's transaction is no news to another's.       *)
LEMMA CommitFrame ==
  ASSUME TypeOK, Rows, Turns, NEW j \in Jobs, Commit(j)
  PROVE  /\ pc[j] = "commit" /\ pc' = [pc EXCEPT ![j] = "unlock"] /\ tx' = [tx EXCEPT ![j] = NoTx]
         /\ UNCHANGED <<input, pos, answers, offRecord>>
         /\ \A i \in Jobs \ {j} : pc[i] \in Recorded =>
              stored'[Cur(i)] = stored[Cur(i)] /\ lastMetric'[Cust(i)] = lastMetric[Cust(i)]
<1>1. /\ pc[j] = "commit" /\ pc' = [pc EXCEPT ![j] = "unlock"] /\ tx' = [tx EXCEPT ![j] = NoTx]
      /\ UNCHANGED <<input, pos, answers, offRecord>>
      /\ \E x : stored' = [stored EXCEPT ![Cur(j)] = x]
      /\ UNCHANGED lastMetric \/ \E x : lastMetric' = [lastMetric EXCEPT ![Cust(j)] = x]
  BY DEF Commit, OnShared, Goto, queueVars
<1>2. ASSUME NEW i \in Jobs \ {j}, pc[i] \in Recorded
      PROVE  stored'[Cur(i)] = stored[Cur(i)] /\ lastMetric'[Cust(i)] = lastMetric[Cust(i)]
  <2>1. Cust(i) # Cust(j)
    BY <1>1, <1>2, OneAtACustomer DEF Recorded
  <2>2. Cur(i) # Cur(j)
    BY <2>1 DEF Cust
  <2> QED
    BY <1>1, <2>1, <2>2, CurFacts DEF TypeOK
<1> QED
  BY <1>1, <1>2

(* The steps on a person's own line: only the record changes what the      *)
(* database knows, and no transaction of a business's line is open.        *)
LEMMA OwnFrame ==
  ASSUME TypeOK, Rows, Turns, NEW j \in Jobs, RecordOwn(j) \/ HonourOwnStop(j) \/ RouteOwn(j)
  PROVE  /\ \A i \in Jobs : pc[i] \notin Recorded /\ ~tx[i].sent /\ ~tx'[i].sent
         /\ \A i \in Jobs \ {j} : pc'[i] = pc[i] /\ tx'[i] = tx[i]
         /\ UNCHANGED <<input, pos, lastMetric, repliedAt, forgotten, offRecord>>
         /\ \/ UNCHANGED stored
            \/ stored[Cur(j)] = 0 /\ stored' = [stored EXCEPT ![Cur(j)] = tx[j].start] /\ UNCHANGED answers
         /\ TurnOf(j)' /\ pc'[j] # "send"
<1>1. line # "shared" /\ pc[j] \in {"record", "ownStop", "route"}
  BY DEF RecordOwn, HonourOwnStop, RouteOwn, Rows
<1>2. \A i \in Jobs : pc[i] \notin Recorded /\ ~tx[i].sent
  BY <1>1 DEF Rows, Turns, TurnOf, Recorded
<1>3. /\ \E s \in {"unlock", "ownStop", "route"} : pc' = [pc EXCEPT ![j] = s] /\ (s = "ownStop" => Cur(j) \in Stops)
      /\ UNCHANGED tx \/ tx' = [tx EXCEPT ![j] = NoTx]
      /\ UNCHANGED <<input, pos, lastMetric, repliedAt, forgotten, offRecord>>
  BY DEF RecordOwn, HonourOwnStop, RouteOwn, Goto, queueVars, historyVars
<1>4. \/ UNCHANGED stored
      \/ stored[Cur(j)] = 0 /\ stored' = [stored EXCEPT ![Cur(j)] = tx[j].start] /\ UNCHANGED answers
  <2>1. CASE RecordOwn(j)
    <3>1. stored[Cur(j)] \in Nat
      BY CurFacts DEF TypeOK
    <3> QED
      BY <2>1, <3>1 DEF RecordOwn, historyVars
  <2> QED
    BY <2>1 DEF HonourOwnStop, RouteOwn
<1>5. /\ \A i \in Jobs \ {j} : pc'[i] = pc[i] /\ tx'[i] = tx[i]
      /\ pc'[j] \in {"unlock", "ownStop", "route"} /\ (pc'[j] = "ownStop" => Cur(j) \in Stops)
      /\ \A i \in Jobs : tx'[i] = tx[i] \/ tx'[i] = NoTx
  BY <1>3 DEF TypeOK
<1>6. \A i \in Jobs : ~tx'[i].sent
  BY <1>2, <1>5 DEF NoTx
<1>7. Cur(j)' = Cur(j) /\ Stops' = Stops
  BY <1>3, CustStays DEF Stops
<1>8. TurnOf(j)'
  BY <1>5, <1>6, <1>7, TurnAtRest
<1> QED
  BY <1>2, <1>3, <1>4, <1>5, <1>6, <1>8

(* Taking a job, its lock and letting it go touch no record.               *)
LEMMA QueueFrame ==
  ASSUME TypeOK, Queue, Turns, NEW j \in Jobs, Take(j) \/ Acquire(j) \/ Unlock(j)
  PROVE  /\ \A i \in Jobs \ {j} : pc'[i] = pc[i] /\ pos'[i] = pos[i] /\ tx'[i] = tx[i]
         /\ UNCHANGED <<input, stored, lastMetric, optedOut, repliedAt, answers, forgotten, offRecord>>
         /\ TurnOf(j)' /\ pc'[j] # "send" /\ ~tx[j].sent /\ ~tx'[j].sent
<1>1. UNCHANGED <<input, stored, lastMetric, optedOut, repliedAt, answers, forgotten, offRecord>>
  BY DEF Take, Acquire, Unlock, dataVars, historyVars
<1>2. CASE Take(j) \/ Unlock(j)
  <2>1. /\ \E s \in {"idle", "lock"} : pc' = [pc EXCEPT ![j] = s]
        /\ UNCHANGED pos \/ pos' = [pos EXCEPT ![j] = @ + 1]
        /\ UNCHANGED tx
    BY <1>2 DEF Take, Unlock, Goto
  <2>2. ~tx[j].sent
    <3>1. pc[j] \in {"idle", "unlock"}
      BY <1>2 DEF Take, Unlock, Queue
    <3> QED
      BY <3>1 DEF Turns, TurnOf
  <2> QED
    BY <1>1, <2>1, <2>2, TurnAtRest DEF TypeOK
<1>3. CASE Acquire(j)
  <2>1. /\ pc[j] = "lock" /\ pc' = [pc EXCEPT ![j] = "record"] /\ UNCHANGED pos
        /\ tx' = [tx EXCEPT ![j] = [NoTx EXCEPT !.start = clock'[Cust(j)]]]
        /\ clock'  = [clock EXCEPT ![Cust(j)] = @ + 1]
    BY <1>3 DEF Acquire, Goto, queueVars
  <2>2. clock'[Cust(j)] \in Nat /\ clock'[Cust(j)] > 0
    <3>1. clock[Cust(j)] \in Nat /\ clock'[Cust(j)] = clock[Cust(j)] + 1
      BY <2>1, CurFacts DEF TypeOK
    <3> QED
      BY <3>1
  <2>3. tx'[j].start = clock'[Cust(j)] /\ ~tx'[j].sent /\ ~tx'[j].fresh
    BY <2>1, NoTxType DEF TypeOK, NoTx
  <2>4. ~tx[j].sent
    BY <2>1 DEF Turns, TurnOf
  <2>5. pc'[j] = "record" /\ \A i \in Jobs \ {j} : pc'[i] = pc[i] /\ tx'[i] = tx[i]
    BY <2>1 DEF TypeOK
  <2> QED
    BY <1>1, <2>1, <2>2, <2>3, <2>4, <2>5, TurnAtRest
<1> QED
  BY <1>2, <1>3

(* What Turns, Accounts and HistoryIsWhole speak of. *)
ledgerVars == <<input, pc, pos, tx, stored, lastMetric, optedOut, repliedAt, answers, forgotten, offRecord>>

LEMMA StandingBy ==
  ASSUME [Next]_vars
  PROVE  \/ \E j \in Jobs : \/ Take(j) \/ Acquire(j) \/ Unlock(j)
                            \/ GiveUp(j) \/ Break(j)
                            \/ Record(j) \/ RecordUnsure(j)
                            \/ Midway(j) \/ Commit(j)
                            \/ RecordOwn(j) \/ HonourOwnStop(j) \/ RouteOwn(j)
         \/ Crash
         \/ UNCHANGED <<ledgerVars, clock>> /\ (UNCHANGED <<troubles, overstayed>> \/ Trouble)
<1> USE DEF ledgerVars, dataVars, historyVars, queueVars
<1>1. ASSUME NEW c \in Customers, Expire(c) \/ Lapse(c) \/ PersonActs(c) \/ PauseEnds(c)
      PROVE  UNCHANGED <<ledgerVars, clock>> /\ (UNCHANGED <<troubles, overstayed>> \/ Trouble)
  BY <1>1 DEF boundVars, Expire, Lapse, PersonActs, PersonStarts, PersonCommits, PersonIsVictim, PauseEnds
<1>2. UNCHANGED vars => UNCHANGED <<ledgerVars, clock, troubles, overstayed>>
  BY DEF vars, boundVars
<1> QED
  BY <1>1, <1>2, Steps DEF Handle, Midway, Unheard

LEMMA TurnsStep == TypeOK /\ Queue /\ Rows /\ Turns /\ [Next]_vars => Turns'
<1> SUFFICES ASSUME TypeOK, Queue, Rows, Turns, [Next]_vars PROVE Turns'
  OBVIOUS
<1>1. ASSUME NEW j \in Jobs, Take(j) \/ Acquire(j) \/ Unlock(j) PROVE Turns'
  BY <1>1, QueueFrame, TurnOfOthers
<1>2. ASSUME NEW j \in Jobs, GiveUp(j) \/ Break(j) PROVE Turns'
  <2>1. /\ pc' = [pc EXCEPT ![j] = "idle"] /\ pos' = [pos EXCEPT ![j] = 1] /\ tx' = [tx EXCEPT ![j] = NoTx]
        /\ UNCHANGED <<input, stored, lastMetric>> /\ offRecord \subseteq offRecord'
    BY <1>2, Throws DEF Throw, Goto, dataVars, RolledBack
  <2>2. /\ \A i \in Jobs \ {j} : pc'[i] = pc[i] /\ pos'[i] = pos[i] /\ tx'[i] = tx[i]
        /\ pc'[j] = "idle" /\ ~tx'[j].sent
    BY <2>1 DEF TypeOK, NoTx
  <2>3. TurnOf(j)'
    BY <2>2, TurnAtRest
  <2> QED
    BY <2>1, <2>2, <2>3, TurnOfOthers
<1>3. ASSUME NEW j \in Jobs, Record(j) \/ RecordUnsure(j) PROVE Turns'
  BY <1>3, TurnBegins, TurnOfOthers DEF dataVars
<1>4. ASSUME NEW j \in Jobs, Midway(j) PROVE Turns'
  <2>1. /\ UNCHANGED <<input, pos, stored, lastMetric>> /\ offRecord \subseteq offRecord'
        /\ \A i \in Jobs \ {j} : pc'[i] = pc[i] /\ tx'[i] = tx[i]
    BY <1>4, MidwayFrame, MidwayWork, SMTT(30) DEF dataVars, TypeOK
  <2> QED
    BY <1>4, <2>1, TurnMidway, TurnOfOthers
<1>5. ASSUME NEW j \in Jobs, Commit(j) PROVE Turns'
  <2>1. /\ pc'[j] = "unlock" /\ ~tx'[j].sent /\ UNCHANGED <<input, offRecord, pos>>
        /\ \A i \in Jobs \ {j} : pc'[i] = pc[i] /\ tx'[i] = tx[i]
    BY <1>5, CommitFrame, SMTT(30) DEF TypeOK, NoTx
  <2>2. TurnOf(j)'
    BY <2>1, TurnAtRest
  <2> QED
    BY <1>5, <2>1, <2>2, CommitFrame, TurnOfOthers
<1>6. ASSUME NEW j \in Jobs, RecordOwn(j) \/ HonourOwnStop(j) \/ RouteOwn(j) PROVE Turns'
  BY <1>6, OwnFrame, TurnOfOthers
<1>7. CASE Crash
  <2>1. pc' = [i \in Jobs |-> "idle"] /\ tx' = [i \in Jobs |-> NoTx]
    BY <1>7 DEF Crash
  <2>2. ASSUME NEW i \in Jobs PROVE TurnOf(i)'
    BY <2>1, TurnAtRest DEF NoTx
  <2> QED
    BY <2>2 DEF Turns
<1>8. CASE UNCHANGED ledgerVars
  <2>1. UNCHANGED <<input, pc, pos, tx, stored, lastMetric, offRecord>>
    BY <1>8 DEF ledgerVars
  <2> QED
    BY <2>1 DEF Turns, TurnOf, Known, Cur, Stops
<1> QED
  BY <1>1, <1>2, <1>3, <1>4, <1>5, <1>6, <1>7, <1>8, StandingBy

-----------------------------------------------------------------------------
(* The accounts of the answers. *)

(* No answer to m leaves.  One that was out still is, or it has been       *)
(* forgotten, is known or was a stop that is now honoured.                 *)
LEMMA AccountKept ==
  ASSUME TypeOK, TypeOK', NEW m \in Messages, AccountOf(m), UNCHANGED input,
         answers'[m] = answers[m],
         forgotten'[m] = forgotten[m] \/ (Out(m) /\ ~Out(m)' /\ forgotten'[m] = forgotten[m] + 1),
         Out(m)' => Out(m),
         optedOut \subseteq optedOut', offRecord \subseteq offRecord',
         repliedAt[m] > 0 => repliedAt'[m] > 0, Known(m) => Known(m)',
         Out(m) => \/ Out(m)'
                   \/ /\ \/ forgotten'[m] = forgotten[m] + 1
                         \/ IF m \in Stops THEN From[m] \in optedOut' ELSE Known(m)'
                      /\ m \in Stops \cup offRecord' \/ repliedAt'[m] > 0
  PROVE  AccountOf(m)'
<1>1. /\ answers[m] \in Nat /\ forgotten[m] \in Nat /\ answers'[m] \in Nat /\ forgotten'[m] \in Nat
      /\ repliedAt[m] \in Nat /\ repliedAt'[m] \in Nat
  BY DEF TypeOK
<1>2. Stops' = Stops
  BY DEF Stops
<1> HIDE DEF Known, Out
<1>3. CASE (Out(m) => Out(m)') /\ forgotten'[m] = forgotten[m]
  BY <1>1, <1>2, <1>3 DEF AccountOf
<1>4. CASE /\ Out(m) /\ ~Out(m)'
           /\ \/ forgotten'[m] = forgotten[m] + 1
              \/ IF m \in Stops THEN From[m] \in optedOut' ELSE Known(m)'
           /\ m \in Stops \cup offRecord' \/ repliedAt'[m] > 0
  <2>1. CASE forgotten'[m] = forgotten[m] + 1
    BY <1>1, <1>2, <1>4, <2>1 DEF AccountOf
  <2>2. CASE forgotten'[m] = forgotten[m] /\ IF m \in Stops THEN From[m] \in optedOut' ELSE Known(m)'
    BY <1>1, <1>2, <1>4, <2>2 DEF AccountOf
  <2> QED
    BY <1>4, <2>1, <2>2
<1> QED
  BY <1>3, <1>4

(* An answer that is out stays out unless its job's transaction ends.      *)
LEMMA OutStays ==
  ASSUME NEW j \in Jobs, NEW m, Out(m),
         \A i \in Jobs \ {j} : pos'[i] = pos[i] /\ tx'[i] = tx[i],
         tx[j].sent /\ Cur(j) = m => tx'[j].sent /\ Cur(j)' = m
  PROVE  Out(m)'
<1>1. PICK i \in Jobs : tx[i].sent /\ Cur(i) = m
  BY DEF Out
<1>2. tx'[i].sent /\ Cur(i)' = m
  BY <1>1, CustStays
<1> QED
  BY <1>2 DEF Out

(* Nothing new is out where nothing was sent.                              *)
LEMMA OutWas ==
  ASSUME NEW j \in Jobs, NEW m, Out(m)',
         \A i \in Jobs \ {j} : pos'[i] = pos[i] /\ tx'[i] = tx[i],
         tx'[j].sent /\ Cur(j)' = m => tx[j].sent /\ Cur(j) = m
  PROVE  Out(m)
<1>1. PICK i \in Jobs : tx'[i].sent /\ Cur(i)' = m
  BY DEF Out
<1>2. tx[i].sent /\ Cur(i) = m
  BY <1>1, CustStays
<1> QED
  BY <1>2 DEF Out

(* Where the only transaction it was out of ends, an answer is out no more.*)
LEMMA OutEnds ==
  ASSUME Rows, Turns, NEW j \in Jobs, NEW m, tx[j].sent, Cur(j) = m,
         \A i \in Jobs \ {j} : pos'[i] = pos[i] /\ tx'[i] = tx[i], ~tx'[j].sent
  PROVE  Out(m) /\ ~Out(m)'
<1> SUFFICES ASSUME NEW i \in Jobs, tx'[i].sent, Cur(i)' = m PROVE FALSE
  BY DEF Out
<1>1. i # j /\ tx[i].sent /\ Cur(i) = Cur(j)
  BY CustStays
<1>2. pc[i] \in Recorded /\ pc[j] \in Recorded
  BY <1>1 DEF Turns, TurnOf, Recorded
<1> QED
  BY <1>1, <1>2, OneAtACustomer DEF Cust

(* An answer leaves: none of its message was out, and it was not known.    *)
LEMMA AnswerIsOut ==
  ASSUME TypeOK, TypeOK', Rows, Turns, NEW j \in Jobs, pc[j] \in Recorded, ~tx[j].sent,
         AccountOf(Cur(j)), tx'[j].sent, UNCHANGED <<input, pos, forgotten>>,
         optedOut' = optedOut, answers'[Cur(j)] = answers[Cur(j)] + 1,
         Cur(j) \notin Stops => ~Known(Cur(j))
  PROVE  AccountOf(Cur(j))'
<1>1. PICK m \in Messages : m = Cur(j)
  BY CurFacts
<1>2. ~Out(m)
  BY <1>1, OutIsOwn, CurFacts DEF Recorded, Cust
<1>3. Cur(j)' = m /\ Stops' = Stops
  BY <1>1, CustStays DEF Stops
<1>4. Out(m)'
  BY <1>3 DEF Out
<1>5. answers[m] \in Nat /\ forgotten[m] \in Nat
  BY DEF TypeOK
<1>6. AccountOf(m)'
  <2> HIDE DEF Known, Out
  <2> QED
    BY <1>1, <1>2, <1>3, <1>4, <1>5 DEF AccountOf
<1> QED
  BY <1>1, <1>3, <1>6

LEMMA AccountsMidway ==
  ASSUME TypeOK, TypeOK', Rows, Turns, Accounts, NEW j \in Jobs, Midway(j)
  PROVE  Accounts'
<1> SUFFICES ASSUME NEW m \in Messages PROVE AccountOf(m)'
  BY DEF Accounts
<1>1. /\ UNCHANGED <<input, pos, stored, lastMetric, optedOut, repliedAt>>
      /\ offRecord \subseteq offRecord' /\ \A i \in Jobs \ {j} : tx'[i] = tx[i]
  BY MidwayFrame, MidwayWork DEF dataVars
<1>2. AccountOf(m) /\ Cur(j) \in Messages /\ forgotten \in [Messages -> Nat] /\ answers \in [Messages -> Nat]
  BY CurFacts DEF Accounts, TypeOK
<1>3. Cur(j)' = Cur(j) /\ (Known(m) => Known(m)')
  BY <1>1, CustStays DEF Known
<1>4. CASE \/ tx'[j].sent = tx[j].sent /\ UNCHANGED <<answers, forgotten>>
           \/ /\ ~tx[j].sent /\ tx'[j].sent /\ m # Cur(j) /\ UNCHANGED forgotten
              /\ answers' = [answers EXCEPT ![Cur(j)] = @ + 1]
           \/ Unnoticed(j) /\ m # Cur(j)
  <2>1. (Out(m) => Out(m)') /\ (Out(m)' => Out(m))
    BY <1>1, <1>3, <1>4, OutStays, OutWas DEF Unnoticed
  <2>2. answers'[m] = answers[m] /\ forgotten'[m] = forgotten[m]
    BY <1>2, <1>4 DEF Unnoticed
  <2> QED
    BY <1>1, <1>2, <1>3, <2>1, <2>2, AccountKept
<1>5. CASE /\ ~tx[j].sent /\ tx'[j].sent /\ m = Cur(j) /\ UNCHANGED forgotten
           /\ answers' = [answers EXCEPT ![Cur(j)] = @ + 1]
  <2>1. pc[j] \in Recorded /\ (Cur(j) \notin Stops => ~Known(Cur(j)))
    BY MidwayWork DEF Turns, TurnOf, Recorded
  <2>2. answers'[Cur(j)] = answers[Cur(j)] + 1
    BY <1>2, <1>5
  <2>3. AccountOf(Cur(j))'
    BY <1>1, <1>2, <1>5, <2>1, <2>2, AnswerIsOut
  <2> QED
    BY <1>3, <1>5, <2>3
<1>6. CASE Unnoticed(j) /\ m = Cur(j)
  <2>1. (Out(m) => Out(m)') /\ (Out(m)' => Out(m))
    BY <1>1, <1>3, <1>6, OutStays, OutWas DEF Unnoticed
  <2>2. /\ answers'[m] = answers[m] + 1 /\ forgotten'[m] = forgotten[m] + 1 /\ m \in offRecord'
        /\ answers[m] \in Nat /\ forgotten[m] \in Nat
    BY <1>2, <1>6 DEF Unnoticed, TypeOK
  <2>3. Stops' = Stops /\ optedOut' = optedOut
    BY <1>1 DEF Stops
  <2> HIDE DEF Out, Known
  <2> QED
    BY <1>1, <1>2, <1>3, <2>1, <2>2, <2>3 DEF AccountOf
<1> QED
  BY <1>2, <1>4, <1>5, <1>6, MidwayWork

(* A transaction that is rolled back leaves its answer forgotten.          *)
LEMMA AccountsThrow ==
  ASSUME TypeOK, TypeOK', Rows, Turns, Accounts, NEW j \in Jobs, Throw(j)
  PROVE  Accounts'
<1> SUFFICES ASSUME NEW m \in Messages PROVE AccountOf(m)'
  BY DEF Accounts
<1>1. /\ UNCHANGED <<input, stored, lastMetric, optedOut, repliedAt, answers>>
      /\ forgotten' = [forgotten EXCEPT ![Cur(j)] = IF tx[j].sent THEN @ + 1 ELSE @]
      /\ offRecord' = IF tx[j].sent THEN offRecord \cup {Cur(j)} ELSE offRecord
      /\ pos' = [pos EXCEPT ![j] = 1] /\ tx' = [tx EXCEPT ![j] = NoTx]
  BY DEF Throw, RolledBack, dataVars
<1>2. AccountOf(m) /\ forgotten \in [Messages -> Nat] /\ Cur(j) \in Messages
  BY CurFacts DEF Accounts, TypeOK
<1>3. ~tx'[j].sent /\ \A i \in Jobs \ {j} : pos'[i] = pos[i] /\ tx'[i] = tx[i]
  BY <1>1 DEF TypeOK, NoTx
<1>4. Known(m) => Known(m)'
  BY <1>1 DEF Known
<1>5. CASE tx[j].sent /\ Cur(j) = m
  <2>1. forgotten'[m] = forgotten[m] + 1 /\ m \in offRecord'
    BY <1>1, <1>2, <1>5
  <2>2. Out(m) /\ ~Out(m)'
    BY <1>3, <1>5, OutEnds
  <2> QED
    BY <1>1, <1>2, <1>4, <2>1, <2>2, AccountKept
<1>6. CASE ~(tx[j].sent /\ Cur(j) = m)
  <2>1. (Out(m) => Out(m)') /\ (Out(m)' => Out(m))
    BY <1>3, <1>6, OutStays, OutWas
  <2>2. forgotten'[m] = forgotten[m]
    BY <1>1, <1>2, <1>6
  <2> QED
    BY <1>1, <1>2, <1>4, <2>1, <2>2, AccountKept
<1> QED
  BY <1>5, <1>6

(* A commit tells the database more, never less, and what it forgets has   *)
(* no metric row.                                                          *)
LEMMA CommitKnows ==
  ASSUME TypeOK, TypeOK', Turns, NEW j \in Jobs, Commit(j), NEW m \in Messages
  PROVE  /\ Known(m) => Known(m)'
         /\ \/ forgotten'[m] = forgotten[m]
            \/ forgotten'[m] = forgotten[m] + 1 /\ tx[j].sent /\ Cur(j) = m /\ m \notin Stops /\ ~Known(m)'
         /\ tx[j].sent /\ Cur(j) = m /\ m \notin Stops => forgotten'[m] = forgotten[m] + 1 \/ Known(m)'
         /\ repliedAt[m] > 0 => repliedAt'[m] > 0
         /\ tx[j].reply /\ Cur(j) = m => repliedAt'[m] > 0
         /\ ~tx'[j].sent /\ \A i \in Jobs \ {j} : pc'[i] = pc[i] /\ pos'[i] = pos[i] /\ tx'[i] = tx[i]
         /\ UNCHANGED <<input, pos, clock, answers, offRecord, overstayed>> /\ pc[j] = "commit" /\ pc'[j] = "unlock"
<1>1. /\ stored'   = [stored EXCEPT ![Cur(j)] = IF tx[j].fresh THEN tx[j].start ELSE @]
      /\ repliedAt' = [repliedAt EXCEPT ![Cur(j)] = IF tx[j].reply THEN tx[j].start ELSE @]
      /\ \/ lastMetric' = [lastMetric EXCEPT ![Cust(j)] = IF tx[j].due /\ tx[j].start > @ THEN tx[j].start ELSE @]
         \/ UNCHANGED lastMetric
      /\ forgotten' = [forgotten EXCEPT ![Cur(j)] =
           IF tx[j].sent /\ Cur(j) \notin Stops /\ lastMetric'[Cust(j)] < stored'[Cur(j)] THEN @ + 1 ELSE @]
  BY DEF Commit
<1>2. /\ tx' = [tx EXCEPT ![j] = NoTx] /\ pc[j] = "commit" /\ pc' = [pc EXCEPT ![j] = "unlock"]
      /\ UNCHANGED <<input, pos, clock, answers, offRecord, overstayed>>
  BY DEF Commit, OnShared, Goto, queueVars
<1>3. /\ tx[j] \in Transaction /\ tx[j].start > 0 /\ (tx[j].fresh <=> stored[Cur(j)] = 0)
      /\ Cur(j) \in Messages /\ Cust(j) \in Customers /\ From[m] \in Customers
  BY <1>2, CurFacts, ConstantsAssumption, ZenonT(60) DEF Turns, TurnOf, Recorded, TypeOK
<1>4. /\ stored[m] \in Nat /\ stored'[m] \in Nat /\ lastMetric[From[m]] \in Nat /\ lastMetric'[From[m]] \in Nat
      /\ forgotten[m] \in Nat /\ repliedAt[m] \in Nat
      /\ stored \in [Messages -> Nat] /\ lastMetric \in [Customers -> Nat] /\ tx[j].start \in Nat
      /\ forgotten \in [Messages -> Nat] /\ repliedAt \in [Messages -> Nat]
  BY <1>3 DEF TypeOK, Transaction
<1>5. stored[m] > 0 => stored'[m] = stored[m]
  BY <1>1, <1>3, <1>4
<1>6. lastMetric'[From[m]] >= lastMetric[From[m]]
  BY <1>1, <1>3, <1>4
<1>7. Known(m) => Known(m)'
  BY <1>4, <1>5, <1>6 DEF Known
<1>8. (repliedAt[m] > 0 => repliedAt'[m] > 0) /\ (tx[j].reply /\ Cur(j) = m => repliedAt'[m] > 0)
  BY <1>1, <1>3, <1>4
<1>9. Cur(j) = m => stored'[m] > 0
  BY <1>1, <1>3, <1>4
<1>10. \/ forgotten'[m] = forgotten[m]
       \/ forgotten'[m] = forgotten[m] + 1 /\ tx[j].sent /\ Cur(j) = m /\ m \notin Stops /\ ~Known(m)'
  <2>1. CASE tx[j].sent /\ Cur(j) = m /\ m \notin Stops /\ lastMetric'[From[m]] < stored'[m]
    BY <1>1, <1>4, <2>1 DEF Known, Cust
  <2>2. CASE ~(tx[j].sent /\ Cur(j) = m /\ m \notin Stops /\ lastMetric'[From[m]] < stored'[m])
    BY <1>1, <1>4, <2>2 DEF Cust
  <2> QED
    BY <2>1, <2>2
<1>11. tx[j].sent /\ Cur(j) = m /\ m \notin Stops => forgotten'[m] = forgotten[m] + 1 \/ Known(m)'
  <2> SUFFICES ASSUME tx[j].sent, Cur(j) = m, m \notin Stops
               PROVE  forgotten'[m] = forgotten[m] + 1 \/ Known(m)'
    OBVIOUS
  <2>1. CASE lastMetric'[From[m]] < stored'[m]
    BY <1>1, <1>4, <2>1 DEF Cust
  <2>2. CASE lastMetric'[From[m]] >= stored'[m]
    BY <1>9, <2>2 DEF Known
  <2> QED
    BY <1>4, <2>1, <2>2
<1>12. /\ ~tx'[j].sent /\ \A i \in Jobs \ {j} : pc'[i] = pc[i] /\ pos'[i] = pos[i] /\ tx'[i] = tx[i]
       /\ pc'[j] = "unlock"
  BY <1>2 DEF TypeOK, NoTx
<1> QED
  BY <1>2, <1>7, <1>8, <1>10, <1>11, <1>12

(* What a commit does not forget is known, or a stop that is now honoured. *)
LEMMA AccountsCommit ==
  ASSUME TypeOK, TypeOK', Rows, Turns, Accounts, NEW j \in Jobs, Commit(j)
  PROVE  Accounts'
<1> SUFFICES ASSUME NEW m \in Messages PROVE AccountOf(m)'
  BY DEF Accounts
<1>1. AccountOf(m) /\ TurnOf(j) /\ UNCHANGED <<input, answers, offRecord>>
  BY CommitKnows DEF Accounts, Turns
<1>2. optedOut' = IF tx[j].stop THEN optedOut \cup {Cust(j)} ELSE optedOut
  BY DEF Commit
<1>3. CASE tx[j].sent /\ Cur(j) = m
  <2>1. m \in Stops => From[m] \in optedOut'
    BY <1>1, <1>2, <1>3 DEF TurnOf, Cust
  <2>2. m \in Stops \cup offRecord' \/ repliedAt'[m] > 0
    <3>1. m \notin Stops => tx[j].reply \/ m \in offRecord
      BY <1>1, <1>3 DEF TurnOf
    <3> QED
      BY <1>1, <1>3, <3>1, CommitKnows
  <2>3. Out(m) /\ ~Out(m)'
    BY <1>3, CommitKnows, OutEnds
  <2> QED
    BY <1>1, <1>2, <1>3, <2>1, <2>2, <2>3, CommitKnows, AccountKept
<1>4. CASE ~(tx[j].sent /\ Cur(j) = m)
  <2>1. (Out(m) => Out(m)') /\ (Out(m)' => Out(m))
    BY <1>4, CommitKnows, OutStays, OutWas
  <2> QED
    BY <1>1, <1>2, <1>4, <2>1, CommitKnows, AccountKept
<1> QED
  BY <1>3, <1>4

(* A crash forgets every answer that is out.                               *)
LEMMA CrashForgets ==
  ASSUME TypeOK, Rows, Turns, Crash, NEW m \in Messages
  PROVE  /\ ~Out(m)'
         /\ Out(m)  => forgotten'[m] = forgotten[m] + 1 /\ m \in offRecord'
         /\ ~Out(m) => forgotten'[m] = forgotten[m]
         /\ MaxTroubles > 0
<1> DEFINE left(n) == {j \in Jobs : Inside(j) /\ tx[j].sent /\ Cur(j) = n}
<1>1. /\ forgotten' = [n \in Messages |-> forgotten[n] + Cardinality(left(n))]
      /\ offRecord' = offRecord \cup {n \in Messages : left(n) # {}}
      /\ tx' = [j \in Jobs |-> NoTx]
  BY DEF Crash
<1>2. forgotten[m] \in Nat /\ forgotten'[m] = forgotten[m] + Cardinality(left(m))
  BY <1>1 DEF TypeOK
<1>3. ~Out(m)'
  BY <1>1 DEF Out, NoTx
<1>4. MaxTroubles > 0
  BY ConstantsAssumption DEF Crash, Trouble, TypeOK
<1>5. CASE Out(m)
  <2>1. PICK j \in Jobs : tx[j].sent /\ Cur(j) = m
    BY <1>5 DEF Out
  <2>2. \A i \in Jobs : tx[i].sent => Inside(i) /\ pc[i] \in Recorded
    BY DEF Turns, TurnOf, Inside, Recorded
  <2>3. left(m) = {j}
    BY <2>1, <2>2, OneAtACustomer DEF Cust
  <2>4. Cardinality(left(m)) = 1
    BY <2>3, FS_Singleton
  <2>5. m \in offRecord'
    BY <1>1, <2>3
  <2> QED
    BY <1>2, <1>3, <1>4, <1>5, <2>4, <2>5
<1>6. CASE ~Out(m)
  <2>1. left(m) = {}
    BY <1>6 DEF Out
  <2>2. Cardinality(left(m)) = 0
    BY <2>1, FS_EmptySet
  <2> QED
    BY <1>2, <1>3, <1>4, <1>6, <2>2
<1> QED
  BY <1>5, <1>6

LEMMA AccountsCrash ==
  ASSUME TypeOK, TypeOK', Rows, Turns, Accounts, Crash
  PROVE  Accounts'
<1> SUFFICES ASSUME NEW m \in Messages PROVE AccountOf(m)'
  BY DEF Accounts
<1>1. UNCHANGED <<input, stored, lastMetric, optedOut, repliedAt, answers>> /\ offRecord \subseteq offRecord'
  BY DEF Crash, dataVars
<1>2. AccountOf(m) /\ (Known(m) => Known(m)')
  BY <1>1 DEF Accounts, Known
<1> QED
  BY <1>1, <1>2, CrashForgets, AccountKept

LEMMA AccountsStep ==
  TypeOK /\ TypeOK' /\ Queue /\ Rows /\ Turns /\ Accounts /\ [Next]_vars => Accounts'
<1> SUFFICES ASSUME TypeOK, TypeOK', Queue, Rows, Turns, Accounts, [Next]_vars PROVE Accounts'
  OBVIOUS
<1>a. \A m \in Messages : AccountOf(m) /\ forgotten[m] \in Nat
  BY DEF Accounts, TypeOK
<1>1. ASSUME NEW j \in Jobs, Take(j) \/ Acquire(j) \/ Unlock(j), NEW m \in Messages PROVE AccountOf(m)'
  <2>1. (Out(m) => Out(m)') /\ (Out(m)' => Out(m)) /\ (Known(m) => Known(m)')
    BY <1>1, QueueFrame, OutStays, OutWas DEF Known
  <2>2. UNCHANGED <<input, optedOut, repliedAt, answers, forgotten, offRecord>>
    BY <1>1, QueueFrame
  <2> QED
    BY <1>a, <2>1, <2>2, AccountKept
<1>2. ASSUME NEW j \in Jobs, GiveUp(j) \/ Break(j) PROVE Accounts'
  BY <1>2, Throws, AccountsThrow
<1>3. ASSUME NEW j \in Jobs, Record(j) \/ RecordUnsure(j), NEW m \in Messages PROVE AccountOf(m)'
  <2>1. UNCHANGED <<input, pos, stored, lastMetric, optedOut, repliedAt, answers, forgotten, offRecord>>
    BY <1>3, TurnBegins DEF dataVars
  <2>2. (Out(m) => Out(m)') /\ (Out(m)' => Out(m)) /\ (Known(m) => Known(m)')
    BY <1>3, <2>1, TurnBegins, OutStays, OutWas DEF Known
  <2> QED
    BY <1>a, <2>1, <2>2, AccountKept
<1>4. ASSUME NEW j \in Jobs, Midway(j) PROVE Accounts'
  BY <1>4, AccountsMidway
<1>5. ASSUME NEW j \in Jobs, Commit(j) PROVE Accounts'
  BY <1>5, AccountsCommit
<1>6. ASSUME NEW j \in Jobs, RecordOwn(j) \/ HonourOwnStop(j) \/ RouteOwn(j), NEW m \in Messages
      PROVE  AccountOf(m)'
  <2>1. /\ UNCHANGED <<input, pos, lastMetric, repliedAt, forgotten, offRecord>> /\ ~Out(m) /\ ~Out(m)'
        /\ \/ UNCHANGED stored
           \/ stored[Cur(j)] = 0 /\ stored' = [stored EXCEPT ![Cur(j)] = tx[j].start]
    BY <1>6, OwnFrame DEF Out
  <2>2. Known(m) => Known(m)'
    <3>1. stored[m] > 0 => stored'[m] = stored[m]
      <4>1. stored \in [Messages -> Nat]
        BY DEF TypeOK
      <4> QED
        BY <2>1, <4>1
    <3> QED
      BY <2>1, <3>1 DEF Known
  <2>3. optedOut \subseteq optedOut'
    BY <1>6 DEF RecordOwn, HonourOwnStop, RouteOwn
  <2>4. CASE answers'[m] = answers[m]
    BY <1>a, <2>1, <2>2, <2>3, <2>4, AccountKept
  <2>5. CASE answers'[m] # answers[m]
    <3>1. HonourOwnStop(j) /\ m = Cur(j) /\ optedOut' = optedOut \cup {Cust(j)}
      BY <1>6, <2>5, CurFacts DEF RecordOwn, HonourOwnStop, RouteOwn, historyVars, TypeOK
    <3>2. m \in Stops /\ Stops' = Stops
      BY <2>1, <3>1 DEF HonourOwnStop, Turns, TurnOf, Stops
    <3>3. From[m] \in optedOut'
      BY <3>1 DEF Cust
    <3> QED
      BY <3>2, <3>3 DEF AccountOf
  <2> QED
    BY <2>4, <2>5
<1>7. CASE Crash
  BY <1>7, AccountsCrash
<1>8. CASE UNCHANGED ledgerVars
  <2>1. UNCHANGED <<input, pos, tx, stored, lastMetric, optedOut, repliedAt, answers, forgotten, offRecord>>
    BY <1>8 DEF ledgerVars
  <2> QED
    BY <2>1 DEF Accounts, AccountOf, Out, Known, Cur, Stops
<1> QED
  BY <1>1, <1>2, <1>3, <1>4, <1>5, <1>6, <1>7, <1>8, StandingBy DEF Accounts

-----------------------------------------------------------------------------
(* Whose transaction is the latest. *)

(* Troubles only grow, and a lock lapses with one.                         *)
LEMMA Calm ==
  ASSUME TypeOK, [Next]_vars, troubles' = 0
  PROVE  troubles = 0 /\ ~Trouble /\ overstayed' \subseteq overstayed
<1>a. troubles \in Nat
  BY ConstantsAssumption DEF TypeOK
<1>b. ~Trouble
  BY <1>a DEF Trouble
<1>1. ASSUME NEW j \in Jobs, Take(j) \/ Acquire(j) \/ Unlock(j) PROVE UNCHANGED troubles /\ overstayed' \subseteq overstayed
  BY <1>1 DEF Take, Acquire, Unlock, boundVars, historyVars
<1>2. ASSUME NEW j \in Jobs, GiveUp(j) \/ Break(j) PROVE UNCHANGED troubles /\ overstayed' \subseteq overstayed
  <2>1. Trouble \/ UNCHANGED troubles
    BY <1>2 DEF GiveUp, Break, RecordFails, CommitFails, RouteFails
  <2>2. overstayed' = overstayed \ {j}
    BY <1>2, Throws DEF Throw
  <2> QED
    BY <1>b, <2>1, <2>2
<1>3. ASSUME NEW j \in Jobs, Handle(j) \/ JobIsVictim(j) PROVE UNCHANGED troubles /\ overstayed' \subseteq overstayed
  <2>1. Trouble \/ UNCHANGED troubles
    BY <1>3 DEF boundVars, Handle, Record, RecordUnsure, ReleaseStale, Assign, Compose, SendReply, SendRefused, SendUnfinished,
                SendUnheard, FallbackUnheard, LeavesUnheard, Escalate, Fallback, Flag, HonourStop, Commit,
                RecordOwn, HonourOwnStop, RouteOwn, JobIsVictim
  <2> QED
    BY <1>3, <1>b, <2>1, WithinMessage
<1>4. CASE Crash
  BY <1>4, <1>b DEF Crash
<1>5. CASE UNCHANGED <<ledgerVars, clock>> /\ (UNCHANGED <<troubles, overstayed>> \/ Trouble)
  BY <1>5, <1>b
<1>6. UNCHANGED troubles /\ overstayed' \subseteq overstayed
  BY <1>1, <1>2, <1>3, <1>4, <1>5, StandingBy DEF Handle, Midway, Unheard
<1> QED
  BY <1>b, <1>6

(* A step of job j leaves the others as late as they were.                 *)
LEMMA ClocksOfOthers ==
  ASSUME TypeOK, Clocks, [Next]_vars, NEW j \in Jobs, UNCHANGED input,
         \A i \in Jobs \ {j} : pc'[i] = pc[i] /\ pos'[i] = pos[i] /\ tx'[i] = tx[i],
         ClockOf(j)',
         \A m \in Messages : stored'[m] = stored[m] \/ stored'[m] <= clock'[From[m]],
         UNCHANGED clock,
         troubles' = 0 => \A m \in Messages : forgotten'[m] = forgotten[m]
  PROVE  Clocks'
<1>1. troubles' = 0 => troubles = 0 /\ overstayed' \subseteq overstayed
  BY Calm
<1>2. ASSUME NEW i \in Jobs PROVE ClockOf(i)'
  <2>1. CASE i = j
    BY <2>1
  <2>2. CASE i # j
    <3>1. /\ ClockOf(i) /\ pc'[i] = pc[i] /\ tx'[i] = tx[i] /\ Cur(i)' = Cur(i) /\ Cust(i)' = Cust(i)
          /\ Stops' = Stops
      BY <2>2, CustStays DEF Clocks, Stops
    <3> QED
      BY <1>1, <3>1 DEF ClockOf
  <2> QED
    BY <2>1, <2>2
<1>3. \A m \in Messages : stored'[m] <= clock'[From[m]]
  BY DEF Clocks
<1>4. troubles' = 0 => overstayed' = {} /\ \A m \in Messages : forgotten'[m] = 0
  BY <1>1 DEF Clocks
<1> QED
  BY <1>2, <1>3, <1>4 DEF Clocks

(* A job that leaves its transaction is as late as it may be.              *)
LEMMA ClockAtRest ==
  ASSUME NEW j \in Jobs, pc'[j] \in {"idle", "lock", "unlock", "ownStop", "route"}
  PROVE  ClockOf(j)'
BY DEF ClockOf, Recorded

(* Between the record and the commit: who has sent an answer will have a   *)
(* metric row to write.                                                    *)
LEMMA MidwayDue ==
  ASSUME TypeOK, Turns, NEW j \in Jobs, ClockOf(j), Midway(j),
         tx'[j].sent, pc'[j] \in {"escalate", "commit"}, pc[j] # "stop"
  PROVE  tx'[j].due
<1>a. tx[j] \in Transaction /\ (tx[j].sent => pc[j] \in {"escalate", "flag", "commit"})
  BY DEF TypeOK, Turns, TurnOf
<1>b. pc[j] = "escalate" /\ tx[j].sent => tx[j].due
  BY DEF Turns, TurnOf, ClockOf, Recorded
<1>c. pc[j] \in {"stale", "assign", "compose", "send", "fallback"} => tx'[j] # tx[j]
  BY <1>a
<1> USE DEF OnShared, Goto, TypeOK
<1>1. CASE ReleaseStale(j) \/ Compose(j) \/ SendRefused(j) \/ SendUnfinished(j)
  <2>1. pc'[j] \in {"assign", "send", "fallback", "flag"}
    BY <1>1 DEF ReleaseStale, Compose, SendRefused, SendUnfinished
  <2> QED
    BY <2>1
<1>2. CASE Assign(j)
  BY <1>2, <1>c DEF Assign
<1>3. CASE SendReply(j)
  <2>1. tx' = [tx EXCEPT ![j] = [tx[j] EXCEPT !.sent = TRUE, !.reply = TRUE, !.due = TRUE]]
    BY <1>3 DEF SendReply
  <2> QED
    BY <2>1, <1>a DEF Transaction
<1>4. CASE Escalate(j)
  <2>1. tx' = [tx EXCEPT ![j] = [tx[j] EXCEPT !.custody = "take"]] /\ pc[j] = "escalate"
    BY <1>4 DEF Escalate
  <2>2. tx'[j].sent = tx[j].sent /\ tx'[j].due = tx[j].due
    BY <2>1, <1>a DEF Transaction
  <2> QED
    BY <2>1, <2>2, <1>b
<1>5. CASE Fallback(j)
  <2>1. \/ pc'[j] = "flag"
        \/ \E kept \in BOOLEAN : tx' = [tx EXCEPT ![j] = [tx[j] EXCEPT !.sent = TRUE, !.reply = kept, !.due = TRUE]]
        \/ tx' = [tx EXCEPT ![j] = [tx[j] EXCEPT !.due = TRUE]]
    BY <1>5 DEF Fallback
  <2>2. CASE \E kept \in BOOLEAN : tx' = [tx EXCEPT ![j] = [tx[j] EXCEPT !.sent = TRUE, !.reply = kept, !.due = TRUE]]
    BY <2>2, <1>a DEF Transaction
  <2>3. CASE tx' = [tx EXCEPT ![j] = [tx[j] EXCEPT !.due = TRUE]]
    BY <2>3, <1>a DEF Transaction
  <2> QED
    BY <2>1, <2>2, <2>3
<1>6. CASE Flag(j)
  <2>1. \/ tx' = [tx EXCEPT ![j] = [tx[j] EXCEPT !.due = TRUE, !.custody = "take"]]
        \/ tx' = [tx EXCEPT ![j] = [tx[j] EXCEPT !.due = TRUE]]
    BY <1>6 DEF Flag
  <2>2. CASE tx' = [tx EXCEPT ![j] = [tx[j] EXCEPT !.due = TRUE, !.custody = "take"]]
    BY <2>2, <1>a DEF Transaction
  <2>3. CASE tx' = [tx EXCEPT ![j] = [tx[j] EXCEPT !.due = TRUE]]
    BY <2>3, <1>a DEF Transaction
  <2> QED
    BY <2>1, <2>2, <2>3
<1>7. CASE HonourStop(j)
  BY <1>7 DEF HonourStop
<1>8. CASE JobIsVictim(j)
  <2>1. CASE pc[j] \in {"stale", "assign"} /\ UNCHANGED tx
    BY <2>1, <1>c
  <2>2. CASE pc'[j] = "flag"
    BY <2>2
  <2>3. CASE tx' = [tx EXCEPT ![j] = [tx[j] EXCEPT !.due = TRUE]]
    BY <2>3, <1>a DEF Transaction
  <2> QED
    BY <1>8, <2>1, <2>2, <2>3 DEF JobIsVictim
<1>9. CASE Unheard(j)
  <2>1. \/ pc'[j] = "fallback"
        \/ tx' = [tx EXCEPT ![j] = [tx[j] EXCEPT !.due = TRUE]]
    BY <1>9 DEF Unheard, SendUnheard, FallbackUnheard
  <2>2. CASE tx' = [tx EXCEPT ![j] = [tx[j] EXCEPT !.due = TRUE]]
    BY <2>2, <1>a DEF Transaction
  <2> QED
    BY <2>1, <2>2
<1> QED
  BY <1>1, <1>2, <1>3, <1>4, <1>5, <1>6, <1>7, <1>8, <1>9 DEF Midway

(* While nothing has gone wrong, what a commit answers is known.           *)
LEMMA CommitInCalm ==
  ASSUME TypeOK, TypeOK', Turns, Clocks, [Next]_vars, NEW j \in Jobs, Commit(j), NEW m \in Messages
  PROVE  /\ stored'[m] <= clock[From[m]]
         /\ troubles' = 0 => forgotten'[m] = forgotten[m]
<1>1. /\ stored'   = [stored EXCEPT ![Cur(j)] = IF tx[j].fresh THEN tx[j].start ELSE @]
      /\ \/ /\ lastMetric' = [lastMetric EXCEPT ![Cust(j)] = IF tx[j].due /\ tx[j].start > @ THEN tx[j].start ELSE @]
            /\ UNCHANGED troubles
         \/ Trouble
  BY DEF Commit
<1>2. ClockOf(j) /\ pc[j] = "commit" /\ UNCHANGED clock
  BY CommitKnows DEF Clocks
<1>3. /\ tx[j].start <= clock[Cust(j)] /\ (troubles = 0 => tx[j].start = clock[Cust(j)])
      /\ tx[j].sent /\ Cur(j) \notin Stops => tx[j].due
  BY <1>2 DEF ClockOf, Recorded
<1>4. /\ stored \in [Messages -> Nat] /\ lastMetric \in [Customers -> Nat] /\ clock \in [Customers -> Nat]
      /\ tx[j].start \in Nat /\ Cur(j) \in Messages /\ Cust(j) \in Customers /\ stored'[m] \in Nat
      /\ lastMetric' \in [Customers -> Nat] /\ From[m] \in Customers
  BY CurFacts, ConstantsAssumption DEF TypeOK, Transaction
<1>5. stored'[m] <= clock[From[m]]
  <2>1. stored[m] <= clock[From[m]]
    BY DEF Clocks
  <2> QED
    BY <1>1, <1>3, <1>4, <2>1 DEF Cust
<1>6. ASSUME troubles' = 0, forgotten'[m] # forgotten[m] PROVE FALSE
  <2>1. tx[j].sent /\ Cur(j) = m /\ m \notin Stops /\ ~Known(m)'
    BY <1>6, CommitKnows
  <2>2. troubles = 0 /\ ~Trouble
    BY <1>6, Calm
  <2>3. tx[j].due /\ tx[j].start = clock[Cust(j)] /\ From[m] = Cust(j)
    BY <1>3, <2>1, <2>2 DEF Cust
  <2>4. lastMetric'[Cust(j)] >= tx[j].start
    BY <1>1, <1>4, <2>2, <2>3
  <2>5. stored'[m] > 0
    <3>1. tx[j].start > 0 /\ (tx[j].fresh <=> stored[Cur(j)] = 0)
      BY <1>2 DEF Turns, TurnOf, Recorded
    <3> QED
      BY <1>1, <1>4, <2>1, <3>1
  <2>6. Known(m)'
    BY <1>4, <1>5, <2>3, <2>4, <2>5 DEF Known
  <2> QED
    BY <2>1, <2>6
<1> QED
  BY <1>5, <1>6

LEMMA ClocksStep ==
  TypeOK /\ TypeOK' /\ Queue /\ Locks /\ Rows /\ Turns /\ Clocks /\ [Next]_vars => Clocks'
<1> SUFFICES ASSUME TypeOK, TypeOK', Queue, Locks, Rows, Turns, Clocks, [Next]_vars PROVE Clocks'
  OBVIOUS
<1>a. \A m \in Messages : stored[m] <= clock[From[m]]
  BY DEF Clocks
<1>1. ASSUME NEW j \in Jobs, Take(j) \/ Unlock(j) PROVE Clocks'
  <2>1. UNCHANGED clock /\ pc'[j] \in {"idle", "lock"}
    BY <1>1 DEF Take, Unlock, Goto, dataVars, TypeOK
  <2> QED
    BY <1>1, <2>1, QueueFrame, ClockAtRest, ClocksOfOthers
<1>2. ASSUME NEW j \in Jobs, Acquire(j) PROVE Clocks'
  <2>1. /\ pc[j] = "lock" /\ lock[Cust(j)] = Free /\ pc' = [pc EXCEPT ![j] = "record"] /\ UNCHANGED <<input, pos>>
        /\ tx' = [tx EXCEPT ![j] = [NoTx EXCEPT !.start = clock'[Cust(j)]]]
        /\ clock' = [clock EXCEPT ![Cust(j)] = clock[Cust(j)] + 1]
        /\ UNCHANGED <<stored, forgotten, overstayed, troubles>>
    BY <1>2 DEF Acquire, Goto, queueVars, boundVars, historyVars
  <2>2. \A c \in Customers : clock[c] \in Nat /\ clock'[c] \in Nat /\ clock'[c] >= clock[c]
    BY <2>1 DEF TypeOK
  <2>3. ASSUME NEW m \in Messages PROVE stored'[m] <= clock'[From[m]]
    <3>1. stored[m] \in Nat /\ From[m] \in Customers
      BY ConstantsAssumption DEF TypeOK
    <3> QED
      BY <1>a, <2>1, <2>2, <3>1
  <2>4. ASSUME NEW i \in Jobs PROVE ClockOf(i)'
    <3>1. Cust(i)' = Cust(i) /\ Cur(i)' = Cur(i) /\ Cust(i) \in Customers /\ Stops' = Stops
      BY <2>1, CustStays, CurFacts DEF Stops
    <3>2. CASE i = j
      <4>1. tx'[j].start = clock'[Cust(j)] /\ ~tx'[j].sent
        BY <2>1, NoTxType DEF TypeOK, NoTx
      <4> QED
        BY <2>2, <3>1, <3>2, <4>1 DEF ClockOf
    <3>3. CASE i # j
      <4>1. ClockOf(i) /\ pc'[i] = pc[i] /\ tx'[i] = tx[i] /\ tx[i] \in Transaction
        BY <2>1, <3>3 DEF Clocks, TypeOK
      <4>2. tx[i].start \in Nat
        BY <4>1 DEF Transaction
      <4>3. ASSUME pc[i] \in Recorded \cup {"record"}, troubles = 0 PROVE Cust(i) # Cust(j)
        <5>1. Inside(i) /\ i \notin overstayed
          BY <4>3 DEF Inside, Recorded, Clocks
        <5>2. lock[Cust(i)] = i
          BY <5>1 DEF Locks
        <5> QED
          BY <2>1, <5>2, ConstantsAssumption
      <4>4. Cust(i) # Cust(j) => clock'[Cust(i)] = clock[Cust(i)]
        BY <2>1, <3>1 DEF TypeOK
      <4> QED
        BY <2>1, <2>2, <3>1, <4>1, <4>2, <4>3, <4>4 DEF ClockOf
    <3> QED
      BY <3>2, <3>3
  <2> QED
    BY <2>1, <2>3, <2>4 DEF Clocks
<1>3. ASSUME NEW j \in Jobs, GiveUp(j) \/ Break(j) PROVE Clocks'
  <2>1. /\ pc' = [pc EXCEPT ![j] = "idle"] /\ pos' = [pos EXCEPT ![j] = 1] /\ tx' = [tx EXCEPT ![j] = NoTx]
        /\ UNCHANGED <<input, stored, clock>>
        /\ forgotten' = [forgotten EXCEPT ![Cur(j)] = IF tx[j].sent THEN @ + 1 ELSE @]
    BY <1>3, Throws DEF Throw, Goto, dataVars, RolledBack
  <2>2. /\ \A i \in Jobs \ {j} : pc'[i] = pc[i] /\ pos'[i] = pos[i] /\ tx'[i] = tx[i]
        /\ pc'[j] = "idle"
    BY <2>1 DEF TypeOK
  <2>3. tx[j].sent => Trouble
    BY <1>3 DEF GiveUp, Break, RecordFails, CommitFails, RouteFails, Turns, TurnOf
  <2>4. troubles' = 0 => \A m \in Messages : forgotten'[m] = forgotten[m]
    BY <2>1, <2>3, Calm DEF TypeOK
  <2> QED
    BY <2>1, <2>2, <2>4, ClockAtRest, ClocksOfOthers
<1>4. ASSUME NEW j \in Jobs, Record(j) \/ RecordUnsure(j) PROVE Clocks'
  <2>1. /\ UNCHANGED <<input, pos, clock, stored, forgotten>> /\ Cust(j)' = Cust(j)
        /\ ~tx'[j].sent /\ tx'[j].start = tx[j].start /\ pc[j] = "record"
        /\ \A i \in Jobs \ {j} : pc'[i] = pc[i] /\ tx'[i] = tx[i]
    BY <1>4, TurnBegins, CustStays DEF dataVars, Record, RecordUnsure, OnShared
  <2>2. troubles' = 0 => troubles = 0
    BY Calm
  <2>3. ClockOf(j)'
    BY <2>1, <2>2 DEF ClockOf, Clocks
  <2> QED
    BY <2>1, <2>3, ClocksOfOthers
<1>5. ASSUME NEW j \in Jobs, Midway(j) PROVE Clocks'
  <2>1. /\ UNCHANGED <<input, pos, clock, stored>> /\ Cust(j)' = Cust(j) /\ Cur(j)' = Cur(j)
        /\ UNCHANGED forgotten \/ Trouble
        /\ tx'[j].start = tx[j].start /\ pc[j] \in Recorded /\ Stops' = Stops
        /\ \A i \in Jobs \ {j} : pc'[i] = pc[i] /\ tx'[i] = tx[i]
    <3>1. UNCHANGED <<input, pos, clock, stored>> /\ (UNCHANGED forgotten \/ Trouble)
      BY <1>5, MidwayFrame, MidwayWork DEF dataVars, Unnoticed
    <3>2. /\ tx'[j].start = tx[j].start /\ pc[j] \in Recorded
          /\ \A i \in Jobs \ {j} : tx'[i] = tx[i]
      BY <1>5, MidwayWork
    <3>3. \A i \in Jobs \ {j} : pc'[i] = pc[i]
      BY <1>5, MidwayFrame DEF TypeOK
    <3> QED
      BY <3>1, <3>2, <3>3, CustStays DEF Stops
  <2>2. troubles' = 0 => troubles = 0 /\ UNCHANGED forgotten
    BY <2>1, Calm
  <2>3. ClockOf(j) /\ (pc[j] = "stop" => Cur(j) \in Stops)
    BY DEF Clocks, Turns, TurnOf
  <2>4. tx'[j].sent /\ pc'[j] \in {"escalate", "commit"} /\ Cur(j) \notin Stops => tx'[j].due
    BY <1>5, <2>3, MidwayDue
  <2>5. ClockOf(j)'
    BY <2>1, <2>2, <2>3, <2>4 DEF ClockOf
  <2> QED
    BY <2>1, <2>2, <2>5, ClocksOfOthers
<1>6. ASSUME NEW j \in Jobs, Commit(j) PROVE Clocks'
  <2>1. /\ UNCHANGED <<input, pos, clock>> /\ pc'[j] = "unlock"
        /\ \A i \in Jobs \ {j} : pc'[i] = pc[i] /\ tx'[i] = tx[i]
    <3>1. /\ pc' = [pc EXCEPT ![j] = "unlock"] /\ tx' = [tx EXCEPT ![j] = NoTx]
          /\ UNCHANGED <<input, pos>>
      BY <1>6, CommitFrame
    <3>2. UNCHANGED clock
      BY <1>6 DEF Commit
    <3> QED
      BY <3>1, <3>2 DEF TypeOK
  <2> QED
    BY <1>6, <2>1, CommitInCalm, ClockAtRest, ClocksOfOthers
<1>7. ASSUME NEW j \in Jobs, RecordOwn(j) \/ HonourOwnStop(j) \/ RouteOwn(j) PROVE Clocks'
  <2>1. UNCHANGED clock /\ pc'[j] \in {"unlock", "ownStop", "route"}
    BY <1>7 DEF RecordOwn, HonourOwnStop, RouteOwn, Goto, TypeOK
  <2>2. \A m \in Messages : stored'[m] = stored[m] \/ stored'[m] <= clock'[From[m]]
    <3>1. CASE RecordOwn(j)
      <4>1. UNCHANGED stored \/ stored' = [stored EXCEPT ![Cur(j)] = tx[j].start]
        BY <3>1 DEF RecordOwn
      <4>2. tx[j].start <= clock[Cust(j)]
        BY <3>1 DEF RecordOwn, Clocks, ClockOf
      <4> QED
        BY <2>1, <4>1, <4>2 DEF Cust, TypeOK
    <3>2. CASE HonourOwnStop(j) \/ RouteOwn(j)
      BY <3>2 DEF HonourOwnStop, RouteOwn
    <3> QED
      BY <1>7, <3>1, <3>2
  <2> QED
    BY <1>7, <2>1, <2>2, OwnFrame, ClockAtRest, ClocksOfOthers
<1>8. CASE Crash
  <2>1. pc' = [i \in Jobs |-> "idle"] /\ UNCHANGED <<stored, clock>> /\ Trouble
    BY <1>8 DEF Crash, dataVars
  <2>2. troubles' # 0
    BY <2>1, Calm
  <2>3. \A i \in Jobs : ClockOf(i)'
    BY <2>1, ClockAtRest
  <2> QED
    BY <1>a, <2>1, <2>2, <2>3 DEF Clocks
<1>9. CASE UNCHANGED <<ledgerVars, clock>>
  <2>1. UNCHANGED <<input, pc, pos, tx, stored, forgotten, clock>>
    BY <1>9 DEF ledgerVars
  <2>2. troubles' = 0 => troubles = 0 /\ overstayed' \subseteq overstayed
    BY Calm
  <2> QED
    BY <2>1, <2>2 DEF Clocks, ClockOf, Cur, Cust, Stops
<1> QED
  BY <1>1, <1>2, <1>3, <1>4, <1>5, <1>6, <1>7, <1>8, <1>9, StandingBy

-----------------------------------------------------------------------------
(* What the agent has in its history. *)

SawAll(i) == \A m \in Messages \ (Stops \cup offRecord \cup {Cur(i)}) :
               From[m] = Cust(i) /\ answers[m] > 0 => m \in tx[i].saw

(* A step of job j leaves what the others read whole, unless another       *)
(* answer to their customer leaves.                                        *)
LEMMA HistoryOfOthers ==
  ASSUME HistoryIsWhole, NEW j \in Jobs, UNCHANGED input, offRecord \subseteq offRecord',
         \A i \in Jobs \ {j} : pc'[i] = pc[i] /\ pos'[i] = pos[i] /\ tx'[i] = tx[i],
         \A i \in Jobs \ {j} : \A m \in Messages \ Stops :
           pc[i] = "send" /\ From[m] = Cust(i) => answers'[m] = answers[m],
         pc'[j] = "send" => SawAll(j)'
  PROVE  HistoryIsWhole'
<1> SUFFICES ASSUME NEW i \in Jobs, pc'[i] = "send" PROVE SawAll(i)'
  BY DEF HistoryIsWhole, SawAll
<1>1. CASE i = j
  BY <1>1
<1>2. CASE i # j
  <2>1. /\ pc[i] = "send" /\ tx'[i] = tx[i] /\ Cur(i)' = Cur(i) /\ Cust(i)' = Cust(i) /\ Stops' = Stops
    BY <1>2, CustStays DEF Stops
  <2>2. SawAll(i)
    BY <2>1 DEF HistoryIsWhole, SawAll
  <2> QED
    BY <1>2, <2>1, <2>2 DEF SawAll
<1> QED
  BY <1>1, <1>2

(* The agent reads every row of an answer; an answer without one is out,   *)
(* and what is out at this customer would be this transaction's own.       *)
LEMMA ComposeReads ==
  ASSUME TypeOK, Rows, Turns, Accounts, NEW j \in Jobs, Midway(j), pc'[j] = "send"
  PROVE  SawAll(j)'
<1>1. Compose(j) /\ tx' = [tx EXCEPT ![j] = [tx[j] EXCEPT !.saw = {m \in Messages : repliedAt[m] > 0}]]
  <2> USE DEF OnShared, Goto, TypeOK
  <2>1. Compose(j)
    BY DEF Midway, ReleaseStale, Assign, AfterAssign, SendReply, SendRefused, SendUnfinished, Escalate, Fallback,
           Flag, HonourStop, JobIsVictim, Unheard, SendUnheard, FallbackUnheard
  <2> QED
    BY <2>1 DEF Compose
<1>2. /\ pc[j] = "compose" /\ UNCHANGED <<input, pos, offRecord, answers>>
      /\ tx[j] \in Transaction /\ ~tx[j].sent
  BY <1>1 DEF Compose, OnShared, queueVars, historyVars, TypeOK, Turns, TurnOf
<1>3. tx'[j].saw = {m \in Messages : repliedAt[m] > 0}
  BY <1>1, <1>2 DEF TypeOK, Transaction
<1>4. Cur(j)' = Cur(j) /\ Cust(j)' = Cust(j) /\ Stops' = Stops
  BY <1>2, CustStays DEF Stops
<1>5. ASSUME NEW m \in Messages \ (Stops \cup offRecord), From[m] = Cust(j), answers[m] > 0
      PROVE  repliedAt[m] > 0
  <2>1. ~Out(m)
    BY <1>2, <1>5, OutIsOwn DEF Recorded
  <2> HIDE DEF Out
  <2>2. answers[m] # 0
    BY <1>5
  <2> QED
    BY <1>5, <2>1, <2>2 DEF Accounts, AccountOf
<1> QED
  BY <1>2, <1>3, <1>4, <1>5 DEF SawAll

LEMMA HistoryStep ==
  TypeOK /\ Queue /\ Rows /\ Turns /\ Accounts /\ HistoryIsWhole /\ [Next]_vars => HistoryIsWhole'
<1> SUFFICES ASSUME TypeOK, Queue, Rows, Turns, Accounts, HistoryIsWhole, [Next]_vars PROVE HistoryIsWhole'
  OBVIOUS
<1>1. ASSUME NEW j \in Jobs, Take(j) \/ Acquire(j) \/ Unlock(j) PROVE HistoryIsWhole'
  BY <1>1, QueueFrame, HistoryOfOthers
<1>2. ASSUME NEW j \in Jobs, GiveUp(j) \/ Break(j) PROVE HistoryIsWhole'
  <2>1. /\ pc' = [pc EXCEPT ![j] = "idle"] /\ pos' = [pos EXCEPT ![j] = 1] /\ tx' = [tx EXCEPT ![j] = NoTx]
        /\ UNCHANGED <<input, answers>> /\ offRecord \subseteq offRecord'
    BY <1>2, Throws DEF Throw, Goto, RolledBack
  <2>2. /\ \A i \in Jobs \ {j} : pc'[i] = pc[i] /\ pos'[i] = pos[i] /\ tx'[i] = tx[i]
        /\ pc'[j] = "idle"
    BY <2>1 DEF TypeOK
  <2> QED
    BY <2>1, <2>2, HistoryOfOthers
<1>3. ASSUME NEW j \in Jobs, Record(j) \/ RecordUnsure(j) PROVE HistoryIsWhole'
  BY <1>3, TurnBegins, HistoryOfOthers
<1>4. ASSUME NEW j \in Jobs, Midway(j) PROVE HistoryIsWhole'
  <2>1. /\ UNCHANGED <<input, pos>> /\ offRecord \subseteq offRecord' /\ pc[j] \in Recorded
        /\ \A i \in Jobs \ {j} : pc'[i] = pc[i] /\ tx'[i] = tx[i]
        /\ UNCHANGED answers \/ answers' = [answers EXCEPT ![Cur(j)] = @ + 1]
    <3>1. \E s \in Recorded : pc' = [pc EXCEPT ![j] = s]
      BY <1>4, MidwayFrame
    <3>2. \A i \in Jobs \ {j} : pc'[i] = pc[i]
      BY <3>1 DEF TypeOK
    <3>3. /\ UNCHANGED <<input, pos>> /\ pc[j] \in Recorded
      BY <1>4, MidwayFrame
    <3>4. /\ offRecord \subseteq offRecord'
          /\ \A i \in Jobs \ {j} : tx'[i] = tx[i]
          /\ UNCHANGED answers \/ answers' = [answers EXCEPT ![Cur(j)] = @ + 1]
      BY <1>4, MidwayWork DEF Unnoticed
    <3> QED
      BY <3>2, <3>3, <3>4
  <2>2. ASSUME NEW i \in Jobs \ {j}, NEW m \in Messages, pc[i] = "send", From[m] = Cust(i)
        PROVE  answers'[m] = answers[m]
    <3>1. Cust(i) # Cust(j)
      BY <2>1, <2>2, OneAtACustomer DEF Recorded
    <3>2. m # Cur(j)
      BY <2>2, <3>1 DEF Cust
    <3> QED
      BY <2>1, <3>2 DEF TypeOK
  <2>3. pc'[j] = "send" => SawAll(j)'
    BY <1>4, ComposeReads
  <2> QED
    BY <2>1, <2>2, <2>3, HistoryOfOthers
<1>5. ASSUME NEW j \in Jobs, Commit(j) PROVE HistoryIsWhole'
  <2>1. /\ UNCHANGED <<input, pos, answers, offRecord>> /\ pc'[j] # "send"
        /\ \A i \in Jobs \ {j} : pc'[i] = pc[i] /\ tx'[i] = tx[i]
    BY <1>5, CommitFrame, SMTT(30) DEF TypeOK
  <2> QED
    BY <2>1, HistoryOfOthers
<1>6. ASSUME NEW j \in Jobs, RecordOwn(j) \/ HonourOwnStop(j) \/ RouteOwn(j) PROVE HistoryIsWhole'
  <2>1. \A i \in Jobs : pc[i] # "send"
    BY <1>6, OwnFrame DEF Recorded
  <2> QED
    BY <1>6, <2>1, OwnFrame, HistoryOfOthers
<1>7. CASE Crash
  <2>1. pc' = [i \in Jobs |-> "idle"]
    BY <1>7 DEF Crash
  <2> QED
    BY <2>1 DEF HistoryIsWhole
<1>8. CASE UNCHANGED ledgerVars
  <2>1. UNCHANGED <<input, pc, pos, tx, answers, offRecord>>
    BY <1>8 DEF ledgerVars
  <2> QED
    BY <2>1 DEF HistoryIsWhole, Cur, Cust, Stops
<1> QED
  BY <1>1, <1>2, <1>3, <1>4, <1>5, <1>6, <1>7, <1>8, StandingBy

-----------------------------------------------------------------------------
LEMMA Inductive2 == Spec => []IInv2
<1>1. IInv2 /\ [Next]_vars => IInv2'
  <2> SUFFICES ASSUME IInv2, [Next]_vars PROVE IInv2'
    OBVIOUS
  <2>1. TypeOK /\ Queue /\ Locks /\ Rows /\ Custody /\ Turns /\ Accounts /\ Clocks /\ HistoryIsWhole
    BY DEF IInv2, IInv
  <2>2. IInv' /\ TypeOK'
    BY <2>1, TypeStep, QueueStep, LocksStep, RowsStep, CustodyStep DEF IInv
  <2>3. Turns' /\ Accounts' /\ Clocks' /\ HistoryIsWhole'
    BY <2>1, <2>2, TurnsStep, AccountsStep, ClocksStep, HistoryStep
  <2> QED
    BY <2>2, <2>3 DEF IInv2
<1> QED
  BY <1>1, InitIInv2, PTL DEF Spec

(* Each answer to a message, but one, was lost with a rollback or ended in *)
(* a commit that no metric row accounts for: redeliveries, retries after   *)
(* the send and lapsed locks alone never make the agent answer twice,      *)
(* however many jobs carry the message (processor.ts 826-886).             *)
THEOREM AnswersAreAccounted == Spec => []AnsweredOnce
<1>1. IInv2 => AnsweredOnce
  <2> SUFFICES ASSUME IInv2, NEW m \in Messages \ Stops PROVE answers[m] <= 1 + forgotten[m]
    BY DEF AnsweredOnce
  <2>1. answers[m] = forgotten[m] \/ answers[m] = forgotten[m] + 1
    BY DEF IInv2, Accounts, AccountOf
  <2>2. answers[m] \in Nat /\ forgotten[m] \in Nat
    BY DEF IInv2, IInv, TypeOK
  <2> QED
    BY <2>1, <2>2
<1> QED
  BY <1>1, Inductive2, PTL

(* The agent answers with every earlier answer to the customer in its      *)
(* history, but those whose row was lost, even when the lock has lapsed    *)
(* and two jobs are at the customer: the second waits for the contact's    *)
(* row until the first has committed (processor.ts, conversation-lock.ts). *)
THEOREM HistoryIsRead == Spec => []HistoryIsWhole
<1>1. IInv2 => HistoryIsWhole
  BY DEF IInv2
<1> QED
  BY <1>1, Inductive2, PTL

(* A customer who was told that a stop was honoured, by an answer that was *)
(* not rolled back, is opted out once no job is at the message any more    *)
(* (processor.ts: confirming an opt-out that did not save would be a lie). *)
THEOREM StopsAreHonoured == Spec => []ConfirmedStopsAreKept
<1>1. IInv2 => ConfirmedStopsAreKept
  <2> SUFFICES ASSUME IInv2, NEW m \in Stops, answers[m] > forgotten[m],
                      \A j \in Jobs : ~(Inside(j) /\ Cur(j) = m)
               PROVE  From[m] \in optedOut
    BY DEF ConfirmedStopsAreKept
  <2>1. m \in Messages /\ answers[m] \in Nat /\ forgotten[m] \in Nat
    BY DEF IInv2, IInv, TypeOK, Stops
  <2>2. ~Out(m)
    BY DEF Out, Inside, IInv2, Turns, TurnOf
  <2>3. From[m] \in optedOut \/ answers[m] <= forgotten[m]
    <3> HIDE DEF Out
    <3> QED
      BY <2>1, <2>2 DEF IInv2, Accounts, AccountOf
  <2> QED
    BY <2>1, <2>3
<1> QED
  BY <1>1, Inductive2, PTL

(* While nothing crashes, fails or lapses no answer is lost, for each      *)
(* transaction is then its customer's latest and its metric row accounts   *)
(* for every message before it: however often a message comes again, and   *)
(* in whatever jobs, it is answered once (processor.ts, metrics.ts).       *)
THEOREM NobodyIsAnsweredAgain == Spec => []AnsweredOnceInCalm
<1>1. IInv2 => AnsweredOnceInCalm
  <2> SUFFICES ASSUME IInv2, troubles = 0, NEW m \in Messages \ Stops PROVE answers[m] <= 1
    BY DEF AnsweredOnceInCalm
  <2>1. forgotten[m] = 0
    BY DEF IInv2, Clocks
  <2>2. answers[m] = forgotten[m] \/ answers[m] = forgotten[m] + 1
    BY DEF IInv2, Accounts, AccountOf
  <2> QED
    BY <2>1, <2>2
<1> QED
  BY <1>1, Inductive2, PTL

-----------------------------------------------------------------------------
(* The refinement of OnceOnly. *)

LEMMA OnceInit == Init => Once!Init
<1> SUFFICES ASSUME Init PROVE Once!Init
  OBVIOUS
<1>1. \A m \in Messages : Left(m) = 0 /\ Seen(m) = "open"
  BY DEF Init, Left, Seen, Known
<1> QED
  BY <1>1 DEF Once!Init

(* Of the answers to a message one at most is not forgotten, and that one  *)
(* is out or known.                                                        *)
LEMMA LeftOnce ==
  ASSUME IInv2, NEW m \in Messages \ Stops
  PROVE  /\ answers[m] \in Nat /\ forgotten[m] \in Nat
         /\ Left(m) = answers[m] - forgotten[m] /\ Left(m) \in {0, 1}
         /\ Out(m) => Left(m) = 1
         /\ ~Out(m) /\ ~Known(m) => Left(m) = 0
<1>1. AccountOf(m) /\ answers[m] \in Nat /\ forgotten[m] \in Nat
  BY DEF IInv2, IInv, TypeOK, Accounts
<1> HIDE DEF Out, Known
<1> QED
  BY <1>1 DEF AccountOf, Left

(* A step with which no answer leaves decides or forgets: nothing that was *)
(* known becomes unknown, and only what is not known is forgotten.         *)
LEMMA QuietIsAllowed ==
  ASSUME IInv2, IInv2', UNCHANGED input,
         \A m \in Messages \ Stops :
           /\ answers'[m] = answers[m] /\ (Known(m) => Known(m)')
           /\ forgotten'[m] = forgotten[m] \/ (forgotten'[m] = forgotten[m] + 1 /\ ~Known(m)')
  PROVE  Once!Decide \/ Once!Forget
<1> DEFINE left     == [m \in Messages |-> Left(m)]
           decision == [m \in Messages |-> Seen(m)]
           F        == {m \in Messages \ Stops : forgotten'[m] # forgotten[m]}
<1>1. Stops' = Stops
  BY DEF Stops
<1>2. ASSUME NEW m \in F PROVE Left(m)' = 0 /\ Seen(m) = "open" /\ Seen(m)' = "open"
  <2>1. forgotten'[m] = forgotten[m] + 1 /\ ~Known(m)' /\ ~Known(m) /\ answers'[m] = answers[m]
    BY <1>2
  <2>2. Left(m) \in {0, 1} /\ Left(m) = answers[m] - forgotten[m] /\ answers[m] \in Nat /\ forgotten[m] \in Nat
    BY <1>2, LeftOnce
  <2>3. Left(m)' \in {0, 1} /\ Left(m)' = answers'[m] - forgotten'[m]
    <3>1. AccountOf(m)' /\ answers'[m] \in Nat /\ forgotten'[m] \in Nat
      BY <1>2 DEF IInv2, IInv, TypeOK, Accounts
    <3> HIDE DEF Out, Known
    <3> QED
      BY <1>1, <1>2, <3>1 DEF AccountOf, Left
  <2>4. Left(m)' = 0
    BY <2>1, <2>2, <2>3
  <2> QED
    BY <2>1, <2>4 DEF Seen
<1>3. ASSUME NEW m \in Messages \ F PROVE Left(m)' = Left(m)
  BY <1>1, <1>3 DEF Left
<1>4. left' = [m \in Messages |-> IF m \in F THEN 0 ELSE left[m]]
  <2> HIDE DEF F
  <2> QED
    BY <1>2, <1>3
<1>5. Once!Decisions
  <2>1. decision' \in [Messages -> Once!Decision]
    BY DEF Seen, Once!Decision
  <2>2. ASSUME NEW m \in Messages, Seen(m)' # Seen(m)
        PROVE  Seen(m) = "open" /\ Left(m)' = Left(m) /\ Left(m) \in {0, 1} /\ m \notin Stops
    <3>1. m \notin F
      BY <1>2, <2>2
    <3>2. Left(m)' = Left(m)
      BY <1>3, <3>1
    <3>3. m \notin Stops
      BY <1>1, <2>2 DEF Seen
    <3>4. ~Known(m)
      BY <1>1, <2>2, <3>2, <3>3 DEF Seen
    <3> QED
      BY <3>2, <3>3, <3>4, LeftOnce DEF Seen
  <2>3. ASSUME NEW m \in Messages, decision'[m] # decision[m]
        PROVE  decision[m] = "open" /\ Once!Truthful(m, decision'[m])
    <3>1. Seen(m)' # Seen(m)
      BY <2>3
    <3>2. Seen(m)' \in {"open", "sent", "failed"} /\ (Seen(m)' = "sent" => Left(m)' = 1)
          /\ (Seen(m)' = "failed" => Left(m)' # 1)
      BY <1>1 DEF Seen
    <3> QED
      BY <2>2, <3>1, <3>2 DEF Once!Truthful
  <2> QED
    BY <2>1, <2>3 DEF Once!Decisions
<1>6. CASE F = {}
  <2>1. left' = left
    BY <1>4, <1>6
  <2> QED
    BY <1>5, <2>1 DEF Once!Decide
<1>7. CASE F # {}
  <2>1. MaxTroubles > 0
    <3>1. PICK m \in F : forgotten'[m] # 0
      BY <1>7, LeftOnce
    <3>2. troubles' # 0
      BY <3>1 DEF IInv2, Clocks
    <3> QED
      BY <3>2, ConstantsAssumption DEF IInv2, IInv, TypeOK
  <2>2. F \in SUBSET Messages /\ \A m \in F : decision[m] = "open" /\ decision'[m] = "open"
    BY <1>2
  <2> QED
    BY <1>4, <1>5, <2>1, <2>2 DEF Once!Forget
<1> QED
  BY <1>6, <1>7

(* An answer leaves only in a transaction whose message is not known and   *)
(* of which no other answer is out: it is the first that is not forgotten. *)
LEMMA AnswerIsALeave ==
  ASSUME IInv2, NEW j \in Jobs, pc[j] \in Recorded, ~tx[j].sent, Cur(j) \notin Stops, ~Known(Cur(j)),
         answers' = [answers EXCEPT ![Cur(j)] = @ + 1], UNCHANGED <<input, stored, lastMetric, forgotten>>
  PROVE  Once!Leave(Cur(j))
<1> DEFINE left     == [m \in Messages |-> Left(m)]
           decision == [m \in Messages |-> Seen(m)]
<1>a. TypeOK /\ Rows /\ Turns /\ answers \in [Messages -> Nat]
  BY DEF IInv2, IInv, TypeOK
<1>1. PICK m \in Messages : m = Cur(j)
  BY <1>a, CurFacts
<1>2. ~Out(m)
  BY <1>a, <1>1, OutIsOwn DEF Recorded, Cust
<1>3. Left(m) = 0 /\ answers[m] \in Nat /\ forgotten[m] \in Nat /\ Left(m) = answers[m] - forgotten[m]
  BY <1>1, <1>2, LeftOnce
<1>4. Stops' = Stops /\ \A n \in Messages : Known(n)' <=> Known(n)
  BY DEF Stops, Known
<1>5. Left(m)' = 1 /\ \A n \in Messages \ {m} : Left(n)' = Left(n)
  BY <1>a, <1>1, <1>3, <1>4 DEF Left
<1>6. left' = [left EXCEPT ![m] = 1]
  BY <1>5
<1>7. Seen(m) = "open" /\ Seen(m)' = "open"
  BY <1>1, <1>4 DEF Seen
<1>8. \A n \in Messages : Seen(n)' = Seen(n)
  BY <1>4, <1>5, <1>7 DEF Seen
<1> QED
  BY <1>1, <1>3, <1>6, <1>7, <1>8 DEF Once!Leave

(* What is out is not known. *)
LEMMA OutIsUnknown ==
  ASSUME Turns, NEW m \in Messages \ Stops, Out(m)
  PROVE  ~Known(m)
BY DEF Turns, TurnOf, Out

(* Each step leaves an answer, or is quiet. *)
LEMMA OnceStep ==
  ASSUME IInv2, IInv2', [Next]_vars
  PROVE  Once!Next
<1> DEFINE Kept(m)  == answers'[m] = answers[m] /\ (Known(m) => Known(m)')
           Lost(m)  == forgotten'[m] = forgotten[m] + 1 /\ ~Known(m)'
           Quiet(m) == Kept(m) /\ (forgotten'[m] = forgotten[m] \/ Lost(m))
<1>a. /\ TypeOK /\ TypeOK' /\ Queue /\ Locks /\ Rows /\ Turns /\ Accounts
      /\ answers \in [Messages -> Nat] /\ forgotten \in [Messages -> Nat] /\ stored \in [Messages -> Nat]
  BY DEF IInv2, IInv, TypeOK
<1>b. ASSUME UNCHANGED input, \A m \in Messages \ Stops : Quiet(m) PROVE Once!Next
  BY <1>b, QuietIsAllowed DEF Once!Next
<1>1. ASSUME NEW j \in Jobs, Take(j) \/ Acquire(j) \/ Unlock(j) PROVE Once!Next
  <2>1. UNCHANGED <<input, stored, lastMetric, answers, forgotten>>
    BY <1>1, <1>a, QueueFrame
  <2> QED
    BY <1>b, <2>1 DEF Known
<1>2. ASSUME NEW j \in Jobs, GiveUp(j) \/ Break(j) PROVE Once!Next
  <2>1. /\ UNCHANGED <<input, stored, lastMetric, answers>>
        /\ forgotten' = [forgotten EXCEPT ![Cur(j)] = IF tx[j].sent THEN @ + 1 ELSE @]
    BY <1>2, Throws DEF Throw, dataVars, RolledBack
  <2>2. ASSUME NEW m \in Messages \ Stops PROVE Quiet(m)
    <3>1. Known(m)' <=> Known(m)
      BY <2>1 DEF Known
    <3>2. tx[j].sent /\ Cur(j) = m => ~Known(m)
      BY <1>a, OutIsUnknown DEF Out
    <3>3. forgotten'[m] = forgotten[m] \/ (forgotten'[m] = forgotten[m] + 1 /\ tx[j].sent /\ Cur(j) = m)
      BY <1>a, <2>1
    <3> HIDE DEF Known
    <3> QED
      BY <2>1, <3>1, <3>2, <3>3
  <2> QED
    BY <1>b, <2>1, <2>2
<1>3. ASSUME NEW j \in Jobs, Record(j) \/ RecordUnsure(j) PROVE Once!Next
  <2>1. UNCHANGED <<input, stored, lastMetric, answers, forgotten>>
    BY <1>3, <1>a, TurnBegins DEF dataVars
  <2> QED
    BY <1>b, <2>1 DEF Known
<1>4. ASSUME NEW j \in Jobs, Midway(j) PROVE Once!Next
  <2>1. /\ UNCHANGED <<input, stored, lastMetric>> /\ pc[j] \in Recorded
        /\ \/ UNCHANGED <<answers, forgotten>>
           \/ ~tx[j].sent /\ answers' = [answers EXCEPT ![Cur(j)] = @ + 1] /\ UNCHANGED forgotten
           \/ Unnoticed(j)
    BY <1>4, <1>a, MidwayFrame, MidwayWork DEF dataVars
  <2>2. CASE /\ UNCHANGED forgotten
             /\ UNCHANGED answers \/ (Cur(j) \in Stops /\ answers' = [answers EXCEPT ![Cur(j)] = @ + 1])
    <3>1. ASSUME NEW m \in Messages \ Stops PROVE Quiet(m)
      BY <1>a, <2>1, <2>2 DEF Known
    <3> QED
      BY <1>b, <2>1, <3>1
  <2>3. CASE /\ Cur(j) \notin Stops /\ ~tx[j].sent /\ UNCHANGED forgotten
             /\ answers' = [answers EXCEPT ![Cur(j)] = @ + 1]
    <3>1. ~Known(Cur(j))
      <4>1. pc[j] \in Recorded \ {"commit"} /\ (pc[j] = "stop" => Cur(j) \in Stops)
        BY <1>4, <1>a, MidwayWork DEF Turns, TurnOf
      <4> QED
        BY <1>a, <2>3, <4>1 DEF Turns, TurnOf
    <3>2. Once!Leave(Cur(j)) /\ Cur(j) \in Messages
      BY <1>a, <2>1, <2>3, <3>1, AnswerIsALeave, CurFacts
    <3> QED
      BY <3>2 DEF Once!Next
  <2>4. CASE Unnoticed(j)
    <3>1. Cur(j) \in Messages /\ Stops' = Stops /\ \A m \in Messages : Known(m)' <=> Known(m)
      BY <1>a, <2>1, CurFacts DEF Stops, Known
    <3>2. ASSUME NEW m \in Messages PROVE answers'[m] - forgotten'[m] = answers[m] - forgotten[m]
      BY <1>a, <2>4, <3>1 DEF Unnoticed
    <3>3. \A m \in Messages : Left(m)' = Left(m)
      BY <3>1, <3>2 DEF Left
    <3>4. \A m \in Messages : Seen(m)' = Seen(m)
      BY <3>1, <3>3 DEF Seen
    <3>5. Once!Decisions
      BY <3>4 DEF Once!Decisions, Seen, Once!Decision
    <3> QED
      BY <3>3, <3>5 DEF Once!Next, Once!Decide
  <2> QED
    BY <2>1, <2>2, <2>3, <2>4
<1>5. ASSUME NEW j \in Jobs, Commit(j) PROVE Once!Next
  <2>1. UNCHANGED <<input, answers>>
    BY <1>5, <1>a, CommitFrame
  <2>2. ASSUME NEW m \in Messages \ Stops PROVE Quiet(m)
    <3>1. /\ Known(m) => Known(m)'
          /\ forgotten'[m] = forgotten[m] \/ (forgotten'[m] = forgotten[m] + 1 /\ ~Known(m)')
      BY <1>5, <1>a, CommitKnows
    <3> HIDE DEF Known
    <3> QED
      BY <2>1, <3>1
  <2> QED
    BY <1>b, <2>1, <2>2
<1>6. ASSUME NEW j \in Jobs, RecordOwn(j) \/ HonourOwnStop(j) \/ RouteOwn(j) PROVE Once!Next
  <2>1. /\ UNCHANGED <<input, lastMetric, forgotten>>
        /\ UNCHANGED stored \/ (stored[Cur(j)] = 0 /\ stored' = [stored EXCEPT ![Cur(j)] = tx[j].start])
    BY <1>6, <1>a, OwnFrame
  <2>2. UNCHANGED answers \/ (Cur(j) \in Stops /\ answers' = [answers EXCEPT ![Cur(j)] = @ + 1])
    <3>1. CASE HonourOwnStop(j)
      <4>1. Cur(j) \in Stops
        BY <3>1, <1>a DEF HonourOwnStop, Turns, TurnOf
      <4> QED
        BY <3>1, <4>1 DEF HonourOwnStop
    <3> QED
      BY <1>6, <3>1 DEF RecordOwn, RouteOwn, historyVars
  <2>3. ASSUME NEW m \in Messages \ Stops PROVE Quiet(m)
    <3>1. stored[m] > 0 => stored'[m] = stored[m]
      BY <1>a, <2>1
    <3>2. answers'[m] = answers[m]
      BY <1>a, <2>2
    <3>3. Known(m) => Known(m)'
      BY <2>1, <3>1 DEF Known
    <3> HIDE DEF Known
    <3> QED
      BY <2>1, <3>2, <3>3
  <2> QED
    BY <1>b, <2>1, <2>3
<1>7. CASE Crash
  <2>1. UNCHANGED <<input, stored, lastMetric, answers>>
    BY <1>7 DEF Crash, dataVars
  <2>2. ASSUME NEW m \in Messages \ Stops PROVE Quiet(m)
    <3>1. Known(m)' <=> Known(m)
      BY <2>1 DEF Known
    <3>2. Out(m) => forgotten'[m] = forgotten[m] + 1 /\ ~Known(m)
      BY <1>7, <1>a, CrashForgets, OutIsUnknown
    <3>3. ~Out(m) => forgotten'[m] = forgotten[m]
      BY <1>7, <1>a, CrashForgets
    <3> HIDE DEF Known, Out
    <3> QED
      BY <2>1, <3>1, <3>2, <3>3
  <2> QED
    BY <1>b, <2>1, <2>2
<1>8. CASE UNCHANGED <<ledgerVars, clock>>
  <2>1. UNCHANGED <<input, stored, lastMetric, answers, forgotten>>
    BY <1>8 DEF ledgerVars
  <2> QED
    BY <1>b, <2>1 DEF Known
<1> QED
  BY <1>1, <1>2, <1>3, <1>4, <1>5, <1>6, <1>7, <1>8, StandingBy

(* The inbound pipeline keeps the promise of OnceOnly for every message it *)
(* is asked to answer: of the answers that are not lost a message has one  *)
(* at most, it leaves before a metric row accounts for the message, and no *)
(* answer of a message that is accounted for is ever lost.                 *)
THEOREM AnswersAreOnceOnly == Spec => ImplementsOnceOnly
<1>1. Init => Once!Init
  BY OnceInit
<1>2. IInv2 /\ IInv2' /\ [Next]_vars => [Once!Next]_(Once!vars)
  BY OnceStep
<1> QED
  BY <1>1, <1>2, Inductive2, PTL DEF Spec, ImplementsOnceOnly, Once!Spec

-----------------------------------------------------------------------------
(* What a job has gone past is on record, and so is what it is at once its *)
(* transaction has ended well.                                             *)
DeliveredBy(j) ==
  /\ pc[j] \in {"unlock", "ownStop", "route"} => stored[Cur(j)] > 0
  /\ \A i \in 1..(pos[j] - 1) : stored[Batch[j][i]] > 0
  /\ job[j] = "done" => \A i \in 1..Len(Batch[j]) : stored[Batch[j][i]] > 0

Delivered == \A j \in Jobs : DeliveredBy(j)

(* A step of a job that does not move on leaves behind it what was there.  *)
LEMMA DeliveredKept ==
  ASSUME TypeOK, NEW j \in Jobs, DeliveredBy(j), pos'[j] \in {1, pos[j]},
         job'[j] = "done" => job[j] = "done",
         \A m \in Messages : stored[m] > 0 => stored'[m] > 0,
         pc'[j] \in {"unlock", "ownStop", "route"} =>
           pos'[j] = pos[j] /\ (pc[j] \in {"unlock", "ownStop", "route"} \/ stored'[Cur(j)] > 0)
  PROVE  DeliveredBy(j)'
<1>1. /\ Batch[j] \in Seq(Messages) /\ pos[j] \in Nat \ {0} /\ pos[j] <= Len(Batch[j])
  BY ConstantsAssumption DEF TypeOK
<1>2. \A i \in 1..Len(Batch[j]) : Batch[j][i] \in Messages
  BY <1>1
<1>3. \A i \in 1..(pos'[j] - 1) : stored'[Batch[j][i]] > 0
  BY <1>1, <1>2 DEF DeliveredBy
<1>4. job'[j] = "done" => \A i \in 1..Len(Batch[j]) : stored'[Batch[j][i]] > 0
  BY <1>2 DEF DeliveredBy
<1>5. pc'[j] \in {"unlock", "ownStop", "route"} => stored'[Cur(j)'] > 0
  BY CurFacts, CustStays DEF DeliveredBy
<1> QED
  BY <1>3, <1>4, <1>5 DEF DeliveredBy

(* What is on record stays. *)
LEMMA StoredStays ==
  ASSUME TypeOK, Queue, Rows, Turns, [Next]_vars, NEW m \in Messages, stored[m] > 0
  PROVE  stored'[m] > 0
<1>a. stored \in [Messages -> Nat]
  BY DEF TypeOK
<1>1. ASSUME NEW j \in Jobs, Take(j) \/ Acquire(j) \/ Unlock(j) PROVE UNCHANGED stored
  BY <1>1, QueueFrame
<1>2. ASSUME NEW j \in Jobs, GiveUp(j) \/ Break(j) PROVE UNCHANGED stored
  BY <1>2, Throws DEF Throw, dataVars
<1>3. ASSUME NEW j \in Jobs, Record(j) \/ RecordUnsure(j) PROVE UNCHANGED stored
  BY <1>3, TurnBegins DEF dataVars
<1>4. ASSUME NEW j \in Jobs, Midway(j) PROVE UNCHANGED stored
  BY <1>4, MidwayFrame DEF dataVars
<1>5. ASSUME NEW j \in Jobs, Commit(j) PROVE stored'[m] > 0
  <2>1. /\ stored' = [stored EXCEPT ![Cur(j)] = IF tx[j].fresh THEN tx[j].start ELSE @]
        /\ pc[j] = "commit"
    BY <1>5 DEF Commit, OnShared
  <2>2. tx[j].start > 0
    BY <2>1 DEF Turns, TurnOf, Recorded
  <2> QED
    BY <1>a, <2>1, <2>2
<1>6. ASSUME NEW j \in Jobs, RecordOwn(j) \/ HonourOwnStop(j) \/ RouteOwn(j) PROVE stored'[m] > 0
  <2>1. UNCHANGED stored \/ (stored[Cur(j)] = 0 /\ stored' = [stored EXCEPT ![Cur(j)] = tx[j].start])
    BY <1>6, OwnFrame
  <2> QED
    BY <1>a, <2>1
<1>7. CASE Crash
  BY <1>7 DEF Crash, dataVars
<1>8. CASE UNCHANGED <<ledgerVars, clock>>
  BY <1>8 DEF ledgerVars
<1> QED
  BY <1>1, <1>2, <1>3, <1>4, <1>5, <1>6, <1>7, <1>8, StandingBy

(* A transaction that ends well has put its message on record.             *)
LEMMA EndsRecorded ==
  ASSUME TypeOK, Rows, Turns, NEW j \in Jobs, Handle(j) \/ JobIsVictim(j),
         pc'[j] \in {"unlock", "ownStop", "route"}
  PROVE  pc[j] \in {"ownStop", "route"} \/ stored'[Cur(j)] > 0
<1>a. stored \in [Messages -> Nat] /\ Cur(j) \in Messages
  BY CurFacts DEF TypeOK
<1>1. CASE Midway(j)
  BY <1>1, MidwayFrame DEF TypeOK, Recorded
<1>2. CASE Record(j) \/ RecordUnsure(j)
  BY <1>2 DEF Record, RecordUnsure, Goto, TypeOK
<1>3. CASE Commit(j)
  <2>1. /\ stored' = [stored EXCEPT ![Cur(j)] = IF tx[j].fresh THEN tx[j].start ELSE @]
        /\ pc[j] = "commit"
    BY <1>3 DEF Commit, OnShared
  <2>2. tx[j].start > 0 /\ (tx[j].fresh <=> stored[Cur(j)] = 0)
    BY <2>1 DEF Turns, TurnOf, Recorded
  <2> QED
    BY <1>a, <2>1, <2>2
<1>4. CASE RecordOwn(j)
  <2>1. /\ pc[j] = "record"
        /\ \/ stored[Cur(j)] > 0 /\ UNCHANGED stored
           \/ stored' = [stored EXCEPT ![Cur(j)] = tx[j].start]
    BY <1>4 DEF RecordOwn
  <2>2. tx[j].start > 0
    BY <2>1 DEF Turns, TurnOf
  <2> QED
    BY <1>a, <2>1, <2>2
<1>5. CASE HonourOwnStop(j) \/ RouteOwn(j)
  BY <1>5 DEF HonourOwnStop, RouteOwn
<1> QED
  BY <1>1, <1>2, <1>3, <1>4, <1>5 DEF Handle, Midway, Unheard

LEMMA DeliveredStep ==
  TypeOK /\ Queue /\ Rows /\ Turns /\ Delivered /\ [Next]_vars => Delivered'
<1> SUFFICES ASSUME TypeOK, Queue, Rows, Turns, Delivered, [Next]_vars, NEW i \in Jobs PROVE DeliveredBy(i)'
  BY DEF Delivered
<1>a. DeliveredBy(i) /\ \A m \in Messages : stored[m] > 0 => stored'[m] > 0
  BY StoredStays DEF Delivered
<1>b. CASE job'[i] = job[i] /\ pos'[i] = pos[i] /\ pc'[i] = pc[i]
  BY <1>a, <1>b, DeliveredKept
<1> DEFINE Elsewhere(j) == \A k \in Jobs \ {j} : job'[k] = job[k] /\ pos'[k] = pos[k] /\ pc'[k] = pc[k]
<1>1. ASSUME NEW j \in Jobs, Take(j) \/ Acquire(j) PROVE DeliveredBy(i)'
  <2>1. /\ pos' = pos /\ Elsewhere(j) /\ pc'[j] \in {"lock", "record"}
        /\ job'[j] = "done" => job[j] = "done"
    BY <1>1 DEF Take, Acquire, Goto, queueVars, TypeOK
  <2> QED
    BY <1>a, <1>b, <2>1, DeliveredKept
<1>2. ASSUME NEW j \in Jobs, Unlock(j) PROVE DeliveredBy(i)'
  <2>1. Elsewhere(j) /\ pc[j] = "unlock" /\ stored' = stored /\ job[j] = "active"
    BY <1>2 DEF Unlock, Goto, dataVars, TypeOK, Queue
  <2>2. \A k \in 1..pos[j] : stored'[Batch[j][k]] > 0
    <3>1. pos[j] \in Nat \ {0} /\ Cur(j) = Batch[j][pos[j]]
      BY DEF TypeOK, Cur
    <3>2. stored[Cur(j)] > 0 /\ \A k \in 1..(pos[j] - 1) : stored[Batch[j][k]] > 0
      BY <2>1 DEF Delivered, DeliveredBy
    <3>3. \A k \in 1..pos[j] : k = pos[j] \/ k \in 1..(pos[j] - 1)
      BY <3>1
    <3> QED
      BY <2>1, <3>1, <3>2, <3>3
  <2>3. CASE pos[j] < Len(Batch[j])
    <3>1. pos'[j] = pos[j] + 1 /\ pc'[j] = "lock" /\ job'[j] = "active" /\ pos[j] \in Nat
      BY <1>2, <2>1, <2>3 DEF Unlock, Goto, TypeOK
    <3>2. DeliveredBy(j)'
      BY <2>2, <3>1 DEF DeliveredBy
    <3> QED
      BY <1>b, <2>1, <3>2
  <2>4. CASE ~(pos[j] < Len(Batch[j]))
    <3>1. pos' = pos /\ pc'[j] = "idle" /\ pos[j] \in Nat /\ pos[j] = Len(Batch[j])
      BY <1>2, <2>4, BatchFacts DEF Unlock, Goto, TypeOK
    <3>2. DeliveredBy(j)'
      BY <2>2, <3>1 DEF DeliveredBy
    <3> QED
      BY <1>b, <2>1, <3>2
  <2> QED
    BY <2>3, <2>4
<1>3. ASSUME NEW j \in Jobs, GiveUp(j) \/ Break(j) PROVE DeliveredBy(i)'
  <2>1. Elsewhere(j) /\ pos'[j] = 1 /\ pc'[j] = "idle" /\ job'[j] # "done"
    <3>1. /\ job' = [job EXCEPT ![j] = AfterThrow(j)] /\ pos' = [pos EXCEPT ![j] = 1]
          /\ pc' = [pc EXCEPT ![j] = "idle"]
      BY <1>3, Throws DEF Throw, Goto
    <3>2. AfterThrow(j) # "done"
      BY DEF AfterThrow
    <3> QED
      BY <3>1, <3>2 DEF TypeOK
  <2> QED
    BY <1>a, <1>b, <2>1, DeliveredKept
<1>4. ASSUME NEW j \in Jobs, Handle(j) \/ JobIsVictim(j) PROVE DeliveredBy(i)'
  <2>1. job' = job /\ pos' = pos /\ Elsewhere(j)
    BY <1>4, WithinMessage DEF TypeOK
  <2>2. DeliveredBy(j)'
    BY <1>4, <1>a, <2>1, EndsRecorded, DeliveredKept DEF Delivered
  <2> QED
    BY <1>b, <2>1, <2>2
<1>5. ASSUME NEW c \in Customers, Expire(c) \/ Lapse(c) \/ PersonActs(c) \/ PauseEnds(c) PROVE DeliveredBy(i)'
  BY <1>5, <1>b DEF Expire, Lapse, queueVars, PersonActs, PersonStarts, PersonCommits, PersonIsVictim, PauseEnds
<1>6. CASE Crash
  <2>1. /\ pos'[i] \in {1, pos[i]} /\ pc'[i] = "idle" /\ (job'[i] = "done" => job[i] = "done")
    BY <1>6 DEF Crash, AfterCrash
  <2> QED
    BY <1>a, <2>1, DeliveredKept
<1>7. CASE UNCHANGED vars
  BY <1>b, <1>7 DEF vars, queueVars
<1> QED
  BY <1>1, <1>2, <1>3, <1>4, <1>5, <1>6, <1>7, Steps

(* A webhook whose job ends well has left none of its messages out, on     *)
(* whatever line, however often it was retried, found stalled or given its *)
(* messages by another delivery first (processor.ts 281-315, queue.ts).    *)
THEOREM NothingIsLeftOut == Spec => []DoneIsRecorded
<1>1. Init => Delivered
  BY DEF Init, Delivered, DeliveredBy
<1>2. IInv2 /\ Delivered /\ [Next]_vars => Delivered'
  BY DeliveredStep DEF IInv2, IInv
<1>3. Delivered => DoneIsRecorded
  BY DEF Delivered, DeliveredBy, DoneIsRecorded
<1> QED
  BY <1>1, <1>2, <1>3, Inductive2, PTL DEF Spec
=============================================================================
