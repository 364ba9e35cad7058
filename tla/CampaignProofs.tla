--------------------------- MODULE CampaignProofs ---------------------------
(***************************************************************************)
(* For any number of recipients, jobs, workers, crashes and faults: the    *)
(* typing of the campaign, that a person is messaged again only when the   *)
(* database lost the first message, that at most one message follows an    *)
(* opt-out, that no recipient goes back, that a Stop is overrun by no more *)
(* than the jobs a worker runs, and that a completed campaign is settled.  *)
(*                                                                         *)
(* The argument is the recipient's row lock.  Queue says which jobs exist; *)
(* Lock that at most one job holds a recipient, and that it is pending for *)
(* as long; Count and Late count messages against what the holder and the  *)
(* committed row say.                                                      *)
(***************************************************************************)
EXTENDS Campaign, FiniteSetTheorems, TLAPS

(* Jobs beyond the last queueing do not exist, one the sync has yet to     *)
(* queue is new, and those of an open Send are for its own new rows.       *)
Queue ==
  /\ \A j \in Jobs : j[2] > batch => job[j] = "none"
  /\ \A j \in todo : job[j] = "none" /\ j[2] <= batch /\ (req.kind # "none" => j[2] < batch)
  /\ \A j \in Jobs : req.kind = "send" /\ j[2] = batch /\ job[j] # "none" => Of(j) \in req.rows
  /\ \A r \in req.rows : rcpt[r] = "absent"
  /\ \A j \in Jobs : job[j] \in {"none", "waiting", "active"} => made[j] < Attempts
  /\ \A j \in Jobs : pc[j] # "idle" <=> job[j] = "active"
  /\ \A j \in Jobs : pc[j] = "closing" => verdict[j] # "open"

(* One holder per row, the row pending under it, and its mark after the    *)
(* send only.                                                              *)
Lock ==
  /\ \A j \in Jobs : Holding(j) => rcpt[Of(j)] = "pending"
  /\ \A j, k \in Jobs : Holding(j) /\ Holding(k) /\ Of(j) = Of(k) => j = k
  /\ \A j \in Jobs : mark[j] = "none" <=> pc[j] \in {"idle", "lock", "send"}
  /\ \A r \in wamid : rcpt[r] \notin {"absent", "pending"}

(* A message whose answer was lost is behind a 'failed' mark, committed or *)
(* the holder's.                                                           *)
Unheard ==
  \A r \in unheard : /\ r \notin wamid
                    /\ \/ rcpt[r] = "failed"
                       \/ \E j \in Jobs : Of(j) = r /\ mark[j] = "failed"

(* The messages that left are the lost ones and, at most, the one that the *)
(* row or its holder's mark stands for.                                    *)
Count ==
  \A r \in Recipients :
    /\ r \in wamid => sends[r] = lost[r] + 1
    /\ r \notin wamid =>
         /\ r \notin unheard /\ (\A j \in Jobs : Of(j) = r => mark[j] # "sent") => sends[r] = lost[r]
         /\ r \in unheard \/ (\E j \in Jobs : Of(j) = r /\ mark[j] = "sent") => sends[r] = lost[r] + 1

(* A job may be about to message a person who has opted out only while     *)
(* nobody has.                                                             *)
Late ==
  \A r \in Recipients :
    /\ lateSends[r] <= 1
    /\ r \notin optedOut => lateSends[r] = 0
    /\ \A j \in Jobs : Of(j) = r /\ pc[j] = "send" => lateSends[r] = 0

IInv == TypeOK /\ Queue /\ Lock /\ Unheard /\ Count /\ Late

(* A stopped campaign starts no job: those yet to send are used up.        *)
Active == {j \in Jobs : job[j] = "active"}
ToSend == {j \in Jobs : pc[j] \in {"lock", "send"}}

Overrun ==
  /\ IsFiniteSet(Active) /\ Cardinality(Active) <= Concurrency
  /\ overrun <= Concurrency
  /\ status = "stopped" => overrun + Cardinality(ToSend) <= Concurrency

(* What is pending came with one Send, or waited from the start; once it   *)
(* is there no request of the first Send is open any more.  So a job that  *)
(* has seen nobody else pending goes on being right.                       *)
OneAudience ==
  /\ origin = "scheduled" => presses = 0 /\ status # "absent"
  /\ status = "absent" => origin = "absent"
  /\ req.kind = "send" => presses > 0
  /\ req.kind # "send" => req.rows = {}
  /\ presses = 0 /\ origin # "scheduled" => \A r \in Recipients : rcpt[r] = "absent"
  /\ presses <= 1 /\ req.kind = "send" => \A r \in Recipients : rcpt[r] = "absent"

Decided ==
  /\ \A j \in Jobs : verdict[j] # "open" => pc[j] \in {"breaker", "pausing", "finish", "closing", "commit"}
  /\ \A j \in Jobs : fin[j] \in {"completed", "failed"} => fin[j] = verdict[j]
  /\ \A j \in Jobs : presses <= 1 /\ verdict[j] # "open" =>
                     \A r \in Recipients : r # Of(j) => rcpt[r] # "pending"
  /\ CompletedIsSettled

IInv2 == IInv /\ Overrun /\ OneAudience /\ Decided

LEMMA JobFacts ==
  /\ \A j \in Jobs : Of(j) \in Recipients /\ j[1] = Of(j) /\ j[2] \in 1..MaxBatches
  /\ \A r \in Recipients, b \in 1..MaxBatches : <<r, b>> \in Jobs
BY DEF Jobs, Of

LEMMA VerdictType == \A rows : Verdict(rows) \in {"open", "completed", "failed"}
BY DEF Verdict

LEMMA InitIInv == Init => IInv
<1> SUFFICES ASSUME Init PROVE IInv
  OBVIOUS
<1> USE ConstantsAssumption, JobFacts DEF Init
<1>1. TypeOK
  <2>1. req \in [kind : {"none", "send", "check"}, rows : SUBSET Recipients, whole : BOOLEAN]
    BY DEF NoRequest
  <2>2. cut \in BOOLEAN
    OBVIOUS
  <2> QED
    BY <2>1, <2>2 DEF TypeOK, Status, RcptStatus, Step
<1>2. Queue /\ Lock /\ Late
  BY DEF Queue, Lock, Late, Holding, NoRequest
<1>3. Unheard /\ Count
  BY DEF Unheard, Count
<1> QED
  BY <1>1, <1>2, <1>3 DEF IInv

(* Typing: an attempt is counted only while one is left, and what a commit *)
(* writes on a row is a mark.                                              *)
LEMMA TypeStep == IInv /\ [Next]_vars => TypeOK'
<1> SUFFICES ASSUME IInv, [Next]_vars PROVE TypeOK'
  OBVIOUS
<1> USE ConstantsAssumption, JobFacts DEF IInv, TypeOK, Status, RcptStatus, Step, Queue, Lock, Holding, vars, campaignVars, jobVars, controlVars, faultVars, historyVars
<1>1. ASSUME BeginSend PROVE TypeOK'
  BY <1>1 DEF BeginSend, Enqueue, CampaignFree
<1>2. ASSUME BeginCheck PROVE TypeOK'
  BY <1>2 DEF BeginCheck, Enqueue, CampaignFree
<1>3. ASSUME CommitRequest PROVE TypeOK'
  BY <1>3 DEF CommitRequest, NoRequest
<1>4. ASSUME RollBackRequest PROVE TypeOK'
  BY <1>4 DEF RollBackRequest, NoRequest
<1>5. ASSUME Resume PROVE TypeOK'
  BY <1>5 DEF Resume, Enqueue, CampaignFree
<1>6. ASSUME Stop PROVE TypeOK'
  BY <1>6 DEF Stop
<1>7. ASSUME NEW r \in Recipients, OptOut(r) PROVE TypeOK'
  BY <1>7 DEF OptOut
<1>8. ASSUME SyncClaim PROVE TypeOK'
  <2>1. todo' \subseteq Jobs
    BY <1>8 DEF SyncClaim, Pending, Jobs
  <2> QED
    BY <1>8, <2>1 DEF SyncClaim
<1>9. ASSUME NEW j \in Jobs, SyncQueue(j) PROVE TypeOK'
  BY <1>9 DEF SyncQueue
<1>10. ASSUME SyncRefused PROVE TypeOK'
  BY <1>10 DEF SyncRefused
<1>11. ASSUME SyncDies PROVE TypeOK'
  BY <1>11 DEF SyncDies
<1>12. ASSUME NeverApproved PROVE TypeOK'
  BY <1>12 DEF NeverApproved
<1>13. ASSUME NEW j \in Jobs, Start(j) PROVE TypeOK'
  <2>1. CASE Return(j) /\ UNCHANGED made
    BY <1>13, <2>1 DEF Start, Return
  <2>2. CASE Throw(j)
    BY <1>13, <2>2 DEF Start, Throw
  <2>3. CASE /\ job' = [job EXCEPT ![j] = "active"]
             /\ pc'  = [pc EXCEPT ![j] = "lock"]
             /\ UNCHANGED made
    BY <1>13, <2>3 DEF Start
  <2> QED
    BY <1>13, <2>1, <2>2, <2>3 DEF Start
<1>14. ASSUME NEW j \in Jobs, LockRecipient(j) PROVE TypeOK'
  <2>1. CASE Return(j) /\ UNCHANGED mark
    BY <1>14, <2>1 DEF LockRecipient, Return
  <2>2. CASE /\ mark' = [mark EXCEPT ![j] = "failed"]
             /\ pc'   = [pc EXCEPT ![j] = "outcome"]
             /\ UNCHANGED job
    BY <1>14, <2>2 DEF LockRecipient
  <2>3. CASE pc' = [pc EXCEPT ![j] = "send"] /\ UNCHANGED <<job, mark>>
    BY <1>14, <2>3 DEF LockRecipient
  <2> QED
    BY <1>14, <2>1, <2>2, <2>3 DEF LockRecipient
<1>15. ASSUME NEW j \in Jobs, SendAccepted(j) PROVE TypeOK'
  BY <1>15 DEF SendAccepted, Leaves
<1>16. ASSUME NEW j \in Jobs, SendUnmarked(j) PROVE TypeOK'
  BY <1>16 DEF SendUnmarked, Leaves, Return
<1>17. ASSUME NEW j \in Jobs, SendRefused(j) PROVE TypeOK'
  BY <1>17 DEF SendRefused
<1>18. ASSUME NEW j \in Jobs, JobFails(j) PROVE TypeOK'
  <2>1. /\ sends' \in [Recipients -> Nat] /\ lost' \in [Recipients -> Nat]
        /\ lateSends' \in [Recipients -> Nat] /\ overrun' \in Nat
    <3>1. CASE UNCHANGED <<sends, lost, lateSends, overrun>>
      BY <3>1
    <3>2. CASE Leaves(Of(j)) /\ lost' = [lost EXCEPT ![Of(j)] = @ + 1]
      BY <3>2 DEF Leaves
    <3> QED
      BY <1>18, <3>1, <3>2 DEF JobFails
  <2>2. job[j] = "active" /\ made[j] < Attempts
    BY <1>18 DEF JobFails
  <2> QED
    BY <1>18, <2>1, <2>2 DEF JobFails, Throw
<1>31. ASSUME NEW j \in Jobs, SendUnanswered(j) PROVE TypeOK'
  BY <1>31 DEF SendUnanswered, Leaves
<1>19. ASSUME NEW j \in Jobs, ReadOutcome(j) PROVE TypeOK'
  BY <1>19, VerdictType DEF ReadOutcome
<1>20. ASSUME NEW j \in Jobs, Breaker(j) PROVE TypeOK'
  BY <1>20 DEF Breaker
<1>21. ASSUME NEW j \in Jobs, Pausing(j) PROVE TypeOK'
  <2>1. CASE fin' = [fin EXCEPT ![j] = "paused"] /\ pc' = [pc EXCEPT ![j] = "commit"]
    BY <1>21, <2>1 DEF Pausing
  <2>2. CASE pc' = [pc EXCEPT ![j] = "finish"] /\ UNCHANGED fin
    BY <1>21, <2>2 DEF Pausing
  <2> QED
    BY <1>21, <2>1, <2>2 DEF Pausing
<1>22. ASSUME NEW j \in Jobs, Finish(j) PROVE TypeOK'
  BY <1>22 DEF Finish
<1>23. ASSUME NEW j \in Jobs, Closing(j) PROVE TypeOK'
  BY <1>23 DEF Closing
<1>24. ASSUME NEW j \in Jobs, ProgressFails(j) PROVE TypeOK'
  BY <1>24 DEF ProgressFails
<1>25. ASSUME NEW j \in Jobs, Commit(j) PROVE TypeOK'
  BY <1>25 DEF Commit, Return, Forget
<1>26. ASSUME NEW j \in Jobs, Crash(j) PROVE TypeOK'
  BY <1>26 DEF Crash, Stands, Forget
<1>27. ASSUME NEW r \in Recipients, NEW new \in {"delivered", "failed"}, Receipt(r, new) PROVE TypeOK'
  BY <1>27 DEF Receipt
<1>28. ASSUME ReceiptCheck PROVE TypeOK'
  BY <1>28 DEF ReceiptCheck
<1>29. ASSUME ReceiptPausing PROVE TypeOK'
  BY <1>29 DEF ReceiptPausing
<1>30. CASE UNCHANGED vars
  BY <1>30
<1> HIDE DEF IInv, TypeOK, Queue, Lock
<1> QED
  BY <1>1, <1>2, <1>3, <1>4, <1>5, <1>6, <1>7, <1>8, <1>9, <1>10, <1>11, <1>12, <1>13, <1>14, <1>15, <1>16, <1>17, <1>18, <1>19, <1>20, <1>21, <1>22, <1>23, <1>24, <1>25, <1>26, <1>27, <1>28, <1>29, <1>30, <1>31 DEF Next, Requests, Sync, Receipts, JobStep

(* The queue: only a request's commit makes its rows, and only the sync    *)
(* queues jobs of an earlier batch.                                        *)
LEMMA QueueStep == IInv /\ [Next]_vars => Queue'
<1> SUFFICES ASSUME IInv, [Next]_vars PROVE Queue'
  OBVIOUS
<1> USE ConstantsAssumption, JobFacts DEF IInv, TypeOK, Queue, Lock, Holding, vars, campaignVars, jobVars, controlVars, faultVars, historyVars
<1>1. ASSUME BeginSend PROVE Queue'
  <2>1. batch' = batch + 1 /\ req'.kind = "send" /\ \A r \in req'.rows : rcpt[r] = "absent"
    BY <1>1 DEF BeginSend, Enqueue
  <2>2. \A j \in Jobs : \/ job'[j] = job[j] /\ (j[2] = batch + 1 => job[j] = "none")
                        \/ j[2] = batch + 1 /\ job[j] = "none" /\ job'[j] = "waiting" /\ Of(j) \in req'.rows
    BY <1>1 DEF BeginSend, Enqueue
  <2> QED
    BY <1>1, <2>1, <2>2 DEF BeginSend
<1>2. ASSUME BeginCheck PROVE Queue'
  BY <1>2 DEF BeginCheck, Enqueue, CampaignFree
<1>3. ASSUME CommitRequest PROVE Queue'
  BY <1>3 DEF CommitRequest, NoRequest
<1>4. ASSUME RollBackRequest PROVE Queue'
  BY <1>4 DEF RollBackRequest, NoRequest
<1>5. ASSUME Resume PROVE Queue'
  <2>1. batch' = batch + 1 /\ todo' = todo /\ req' = req /\ req.kind = "none"
    BY <1>5 DEF Resume, Enqueue, CampaignFree
  <2>2. \A j \in Jobs : job'[j] = job[j] \/ (j[2] = batch + 1 /\ job[j] = "none" /\ job'[j] = "waiting")
    BY <1>5 DEF Resume, Enqueue
  <2> QED
    BY <1>5, <2>1, <2>2 DEF Resume
<1>6. ASSUME Stop PROVE Queue'
  BY <1>6 DEF Stop
<1>7. ASSUME NEW r \in Recipients, OptOut(r) PROVE Queue'
  BY <1>7 DEF OptOut
<1>8. ASSUME SyncClaim PROVE Queue'
  BY <1>8 DEF SyncClaim, CampaignFree, Pending, Jobs
<1>9. ASSUME NEW j \in Jobs, SyncQueue(j) PROVE Queue'
  BY <1>9 DEF SyncQueue
<1>10. ASSUME SyncRefused PROVE Queue'
  BY <1>10 DEF SyncRefused
<1>11. ASSUME SyncDies PROVE Queue'
  BY <1>11 DEF SyncDies
<1>12. ASSUME NeverApproved PROVE Queue'
  BY <1>12 DEF NeverApproved
<1>13. ASSUME NEW j \in Jobs, Start(j) PROVE Queue'
  <2>1. CASE Return(j) /\ UNCHANGED made
    BY <1>13, <2>1 DEF Start, Return
  <2>2. CASE Throw(j)
    BY <1>13, <2>2 DEF Start, Throw
  <2>3. CASE /\ job' = [job EXCEPT ![j] = "active"]
             /\ pc'  = [pc EXCEPT ![j] = "lock"]
             /\ UNCHANGED made
    BY <1>13, <2>3 DEF Start
  <2> QED
    BY <1>13, <2>1, <2>2, <2>3 DEF Start
<1>14. ASSUME NEW j \in Jobs, LockRecipient(j) PROVE Queue'
  BY <1>14, SMTT(30) DEF LockRecipient, Return
<1>15. ASSUME NEW j \in Jobs, SendAccepted(j) PROVE Queue'
  BY <1>15 DEF SendAccepted, Leaves
<1>16. ASSUME NEW j \in Jobs, SendUnmarked(j) PROVE Queue'
  <2>1. job' = [job EXCEPT ![j] = "done"] /\ pc' = [pc EXCEPT ![j] = "idle"] /\ job[j] = "active"
    BY <1>16 DEF SendUnmarked, Return
  <2>2. UNCHANGED <<made, verdict, req, batch, todo, rcpt>>
    BY <1>16 DEF SendUnmarked
  <2> QED
    BY <2>1, <2>2
<1>17. ASSUME NEW j \in Jobs, SendRefused(j) PROVE Queue'
  BY <1>17 DEF SendRefused
<1>18. ASSUME NEW j \in Jobs, JobFails(j) PROVE Queue'
  BY <1>18 DEF JobFails, Throw
<1>31. ASSUME NEW j \in Jobs, SendUnanswered(j) PROVE Queue'
  BY <1>31 DEF SendUnanswered, Leaves
<1>19. ASSUME NEW j \in Jobs, ReadOutcome(j) PROVE Queue'
  BY <1>19 DEF ReadOutcome
<1>20. ASSUME NEW j \in Jobs, Breaker(j) PROVE Queue'
  BY <1>20 DEF Breaker
<1>21. ASSUME NEW j \in Jobs, Pausing(j) PROVE Queue'
  BY <1>21 DEF Pausing
<1>22. ASSUME NEW j \in Jobs, Finish(j) PROVE Queue'
  BY <1>22 DEF Finish
<1>23. ASSUME NEW j \in Jobs, Closing(j) PROVE Queue'
  BY <1>23 DEF Closing
<1>24. ASSUME NEW j \in Jobs, ProgressFails(j) PROVE Queue'
  BY <1>24 DEF ProgressFails
<1>25. ASSUME NEW j \in Jobs, Commit(j) PROVE Queue'
  <2>1. pc[j] = "commit" /\ job[j] = "active" /\ rcpt[Of(j)] = "pending"
    BY <1>25 DEF Commit
  <2>2. /\ rcpt' = [rcpt EXCEPT ![Of(j)] = mark[j]]
        /\ job'  = [job EXCEPT ![j] = "done"]
        /\ pc'   = [pc EXCEPT ![j] = "idle"]
        /\ verdict' = [verdict EXCEPT ![j] = "open"]
        /\ UNCHANGED <<made, req, batch, todo>>
    BY <1>25 DEF Commit, Return, Forget
  <2> QED
    BY <2>1, <2>2
<1>26. ASSUME NEW j \in Jobs, Crash(j) PROVE Queue'
  BY <1>26 DEF Crash, Stands, Forget
<1>27. ASSUME NEW r \in Recipients, NEW new \in {"delivered", "failed"}, Receipt(r, new) PROVE Queue'
  BY <1>27 DEF Receipt
<1>28. ASSUME ReceiptCheck PROVE Queue'
  BY <1>28 DEF ReceiptCheck
<1>29. ASSUME ReceiptPausing PROVE Queue'
  BY <1>29 DEF ReceiptPausing
<1>30. CASE UNCHANGED vars
  BY <1>30
<1> HIDE DEF IInv, TypeOK, Queue, Lock
<1> QED
  BY <1>1, <1>2, <1>3, <1>4, <1>5, <1>6, <1>7, <1>8, <1>9, <1>10, <1>11, <1>12, <1>13, <1>14, <1>15, <1>16, <1>17, <1>18, <1>19, <1>20, <1>21, <1>22, <1>23, <1>24, <1>25, <1>26, <1>27, <1>28, <1>29, <1>30, <1>31 DEF Next, Requests, Sync, Receipts, JobStep

(* The lock: taken on a free pending row, and kept until the job ends.     *)
LEMMA LockStep == IInv /\ [Next]_vars => Lock'
<1> SUFFICES ASSUME IInv, [Next]_vars PROVE Lock'
  OBVIOUS
<1> USE ConstantsAssumption, JobFacts DEF IInv, TypeOK, Queue, Lock, Holding, RowFree, vars, campaignVars, jobVars, controlVars, faultVars, historyVars
<1>1. ASSUME BeginSend PROVE Lock'
  BY <1>1 DEF BeginSend, Enqueue, CampaignFree
<1>2. ASSUME BeginCheck PROVE Lock'
  BY <1>2 DEF BeginCheck, Enqueue, CampaignFree
<1>3. ASSUME CommitRequest PROVE Lock'
  BY <1>3 DEF CommitRequest, NoRequest
<1>4. ASSUME RollBackRequest PROVE Lock'
  BY <1>4 DEF RollBackRequest, NoRequest
<1>5. ASSUME Resume PROVE Lock'
  BY <1>5 DEF Resume, Enqueue, CampaignFree
<1>6. ASSUME Stop PROVE Lock'
  BY <1>6 DEF Stop
<1>7. ASSUME NEW r \in Recipients, OptOut(r) PROVE Lock'
  BY <1>7 DEF OptOut
<1>8. ASSUME SyncClaim PROVE Lock'
  BY <1>8 DEF SyncClaim, CampaignFree
<1>9. ASSUME NEW j \in Jobs, SyncQueue(j) PROVE Lock'
  BY <1>9 DEF SyncQueue
<1>10. ASSUME SyncRefused PROVE Lock'
  BY <1>10 DEF SyncRefused
<1>11. ASSUME SyncDies PROVE Lock'
  BY <1>11 DEF SyncDies
<1>12. ASSUME NeverApproved PROVE Lock'
  BY <1>12 DEF NeverApproved
<1>13. ASSUME NEW j \in Jobs, Start(j) PROVE Lock'
  <2>1. CASE Return(j) /\ UNCHANGED mark
    BY <1>13, <2>1 DEF Start, Return
  <2>2. CASE Throw(j)
    BY <1>13, <2>2 DEF Start, Throw
  <2>3. CASE pc' = [pc EXCEPT ![j] = "lock"]
    BY <1>13, <2>3 DEF Start
  <2> QED
    BY <1>13, <2>1, <2>2, <2>3 DEF Start
<1>14. ASSUME NEW j \in Jobs, LockRecipient(j) PROVE Lock'
  <2>1. CASE Return(j) /\ UNCHANGED mark
    BY <1>14, <2>1 DEF LockRecipient, Return
  <2>2. CASE /\ mark' = [mark EXCEPT ![j] = "failed"]
             /\ pc'   = [pc EXCEPT ![j] = "outcome"]
             /\ UNCHANGED job
    BY <1>14, <2>2 DEF LockRecipient
  <2>3. CASE pc' = [pc EXCEPT ![j] = "send"] /\ UNCHANGED <<job, mark>>
    <3>0. pc[j] = "lock" /\ mark[j] = "none"
      BY <1>14 DEF LockRecipient
    <3>1. rcpt[Of(j)] = "pending" /\ UNCHANGED <<rcpt, wamid>>
      <4>1. pc'[j] = "send"
        BY <2>3
      <4> QED
        BY <1>14, <2>3, <3>0, <4>1 DEF LockRecipient, Return
    <3>2. \A k \in Jobs : Of(k) = Of(j) => ~Holding(k)
      BY <1>14 DEF LockRecipient
    <3> QED
      BY <2>3, <3>0, <3>1, <3>2
  <2> QED
    BY <1>14, <2>1, <2>2, <2>3 DEF LockRecipient
<1>15. ASSUME NEW j \in Jobs, SendAccepted(j) PROVE Lock'
  BY <1>15 DEF SendAccepted, Leaves
<1>16. ASSUME NEW j \in Jobs, SendUnmarked(j) PROVE Lock'
  BY <1>16 DEF SendUnmarked, Leaves, Return
<1>17. ASSUME NEW j \in Jobs, SendRefused(j) PROVE Lock'
  BY <1>17 DEF SendRefused
<1>18. ASSUME NEW j \in Jobs, JobFails(j) PROVE Lock'
  BY <1>18 DEF JobFails, Throw
<1>31. ASSUME NEW j \in Jobs, SendUnanswered(j) PROVE Lock'
  BY <1>31 DEF SendUnanswered, Leaves
<1>19. ASSUME NEW j \in Jobs, ReadOutcome(j) PROVE Lock'
  BY <1>19 DEF ReadOutcome
<1>20. ASSUME NEW j \in Jobs, Breaker(j) PROVE Lock'
  BY <1>20 DEF Breaker
<1>21. ASSUME NEW j \in Jobs, Pausing(j) PROVE Lock'
  <2>1. CASE fin' = [fin EXCEPT ![j] = "paused"] /\ pc' = [pc EXCEPT ![j] = "commit"]
    BY <1>21, <2>1 DEF Pausing
  <2>2. CASE pc' = [pc EXCEPT ![j] = "finish"] /\ UNCHANGED fin
    BY <1>21, <2>2 DEF Pausing
  <2> QED
    BY <1>21, <2>1, <2>2 DEF Pausing
<1>22. ASSUME NEW j \in Jobs, Finish(j) PROVE Lock'
  BY <1>22 DEF Finish
<1>23. ASSUME NEW j \in Jobs, Closing(j) PROVE Lock'
  BY <1>23 DEF Closing
<1>24. ASSUME NEW j \in Jobs, ProgressFails(j) PROVE Lock'
  BY <1>24 DEF ProgressFails
<1>25. ASSUME NEW j \in Jobs, Commit(j) PROVE Lock'
  BY <1>25 DEF Commit, Return, Forget
<1>26. ASSUME NEW j \in Jobs, Crash(j) PROVE Lock'
  BY <1>26 DEF Crash, Stands, Forget
<1>27. ASSUME NEW r \in Recipients, NEW new \in {"delivered", "failed"}, Receipt(r, new) PROVE Lock'
  BY <1>27 DEF Receipt
<1>28. ASSUME ReceiptCheck PROVE Lock'
  BY <1>28 DEF ReceiptCheck
<1>29. ASSUME ReceiptPausing PROVE Lock'
  BY <1>29 DEF ReceiptPausing
<1>30. CASE UNCHANGED vars
  BY <1>30
<1> HIDE DEF IInv, TypeOK, Queue, Lock
<1> QED
  BY <1>1, <1>2, <1>3, <1>4, <1>5, <1>6, <1>7, <1>8, <1>9, <1>10, <1>11, <1>12, <1>13, <1>14, <1>15, <1>16, <1>17, <1>18, <1>19, <1>20, <1>21, <1>22, <1>23, <1>24, <1>25, <1>26, <1>27, <1>28, <1>29, <1>30, <1>31 DEF Next, Requests, Sync, Receipts, JobStep

(* A lost answer's 'failed' mark is undone only with the message.          *)
LEMMA UnheardStep == IInv /\ [Next]_vars => Unheard'
<1> SUFFICES ASSUME IInv, [Next]_vars PROVE Unheard'
  OBVIOUS
<1> USE JobFacts DEF IInv, TypeOK, Queue, Lock, Unheard, Holding, vars, campaignVars, jobVars, historyVars
<1>1. ASSUME UNCHANGED <<rcpt, wamid, mark, unheard>> PROVE Unheard'
  BY <1>1
<1>2. CASE \/ BeginSend \/ BeginCheck \/ RollBackRequest \/ Resume \/ Stop \/ Sync
           \/ ReceiptCheck \/ ReceiptPausing \/ \E r \in Recipients : OptOut(r)
  BY <1>1, <1>2 DEF Sync, BeginSend, BeginCheck, RollBackRequest, Resume, Stop,
                    OptOut, SyncClaim, SyncQueue, SyncRefused, SyncDies, NeverApproved, ReceiptCheck,
                    ReceiptPausing
<1>3. CASE CommitRequest
  <2>1. UNCHANGED <<wamid, mark, unheard>> /\ \A r \in Recipients : rcpt[r] = "failed" => rcpt'[r] = "failed"
    BY <1>3 DEF CommitRequest
  <2> QED
    BY <2>1
<1>4. ASSUME NEW r \in Recipients, NEW new \in {"delivered", "failed"}, Receipt(r, new) PROVE Unheard'
  <2>1. UNCHANGED <<wamid, mark, unheard>> /\ r \in wamid /\ rcpt' = [rcpt EXCEPT ![r] = new]
    BY <1>4 DEF Receipt
  <2> QED
    BY <2>1
<1>5. ASSUME NEW j \in Jobs, \/ Start(j) \/ SendUnmarked(j) \/ ReadOutcome(j) \/ Breaker(j) \/ Pausing(j)
                             \/ Finish(j) \/ Closing(j) \/ ProgressFails(j) \/ JobFails(j)
      PROVE  Unheard'
  BY <1>1, <1>5 DEF Start, SendUnmarked, ReadOutcome, Breaker, Pausing, Finish, Closing, ProgressFails, JobFails
<1>6. ASSUME NEW j \in Jobs, \/ LockRecipient(j) \/ SendAccepted(j) \/ SendRefused(j)
      PROVE  Unheard'
  <2>1. UNCHANGED <<rcpt, wamid, unheard>> /\ \A k \in Jobs : mark[k] # "none" => mark'[k] = mark[k]
    <3>1. mark[j] = "none"
      BY <1>6 DEF LockRecipient, SendAccepted, SendRefused
    <3> QED
      BY <1>6, <3>1 DEF LockRecipient, SendAccepted, SendRefused
  <2> QED
    BY <2>1
<1>7. ASSUME NEW j \in Jobs, SendUnanswered(j) PROVE Unheard'
  <2>1. /\ Of(j) \notin wamid /\ mark[j] = "none" /\ UNCHANGED <<rcpt, wamid>>
        /\ mark' = [mark EXCEPT ![j] = "failed"] /\ unheard' = unheard \cup {Of(j)}
    BY <1>7 DEF SendUnanswered
  <2> QED
    BY <2>1
<1>8. ASSUME NEW j \in Jobs, Commit(j) PROVE Unheard'
  <2>1. /\ Holding(j) /\ rcpt[Of(j)] = "pending" /\ mark[j] \in {"sent", "failed"} /\ Of(j) \notin wamid
        /\ \A k \in Jobs : Of(k) = Of(j) /\ mark[k] # "none" => k = j
    BY <1>8 DEF Commit
  <2>2. /\ rcpt' = [rcpt EXCEPT ![Of(j)] = mark[j]] /\ unheard' = unheard
        /\ wamid' = IF mark[j] = "sent" THEN wamid \cup {Of(j)} ELSE wamid
        /\ mark' = [mark EXCEPT ![j] = "none"]
    BY <1>8 DEF Commit, Forget
  <2>3. ASSUME NEW r \in unheard
        PROVE  r \notin wamid' /\ (rcpt'[r] = "failed" \/ \E k \in Jobs : Of(k) = r /\ mark'[k] = "failed")
    <3>1. CASE r = Of(j)
      BY <2>1, <2>2, <3>1, SMTT(30)
    <3>2. CASE r # Of(j)
      BY <2>1, <2>2, <3>2
    <3> QED
      BY <3>1, <3>2
  <2> QED
    BY <2>2, <2>3
<1>9. ASSUME NEW j \in Jobs, Crash(j) PROVE Unheard'
  <2>1. /\ UNCHANGED <<rcpt, wamid>> /\ mark' = [mark EXCEPT ![j] = "none"]
        /\ unheard' = IF Stands(j) THEN unheard \ {Of(j)} ELSE unheard
    BY <1>9 DEF Crash, Forget
  <2> QED
    BY <2>1 DEF Stands
<1>10. CASE UNCHANGED vars
  BY <1>1, <1>10
<1> HIDE DEF IInv, Unheard
<1> QED
  BY <1>2, <1>3, <1>4, <1>5, <1>6, <1>7, <1>8, <1>9, <1>10 DEF Next, Requests, Receipts, JobStep

(* Who sends holds the row: no mark stands for a message of its person.    *)
LEMMA NothingStands ==
  ASSUME IInv, NEW j \in Jobs, pc[j] = "send"
  PROVE  /\ Of(j) \in Recipients /\ Of(j) \notin wamid /\ rcpt[Of(j)] = "pending" /\ Of(j) \notin unheard
         /\ \A k \in Jobs : Of(k) = Of(j) => mark[k] = "none"
         /\ sends[Of(j)] = lost[Of(j)]
<1> USE JobFacts DEF IInv, Lock, Holding
<1>1. rcpt[Of(j)] = "pending" /\ Of(j) \notin wamid /\ Of(j) \in Recipients
  OBVIOUS
<1>2. ASSUME NEW k \in Jobs, Of(k) = Of(j) PROVE mark[k] = "none"
  <2>1. k = j \/ pc[k] \in {"idle", "lock"}
    BY <1>2, SMTT(30)
  <2> QED
    BY <2>1
<1>3. Of(j) \notin unheard
  BY <1>1, <1>2 DEF Unheard
<1> QED
  BY <1>1, <1>2, <1>3 DEF Count

(* The count moves with the mark, the loss and the commit.                 *)
LEMMA CountStep == IInv /\ [Next]_vars => Count'
<1> SUFFICES ASSUME IInv, [Next]_vars PROVE Count'
  OBVIOUS
<1> USE JobFacts DEF IInv, TypeOK, Lock, Count, Holding, vars, campaignVars, jobVars, historyVars
<1>1. ASSUME UNCHANGED <<wamid, mark, sends, lost, unheard>> PROVE Count'
  BY <1>1
<1>2. CASE \/ Requests \/ Sync \/ Receipts \/ \E r \in Recipients : OptOut(r)
  BY <1>1, <1>2 DEF Requests, Sync, Receipts, BeginSend, BeginCheck, CommitRequest, RollBackRequest, Resume, Stop,
                    OptOut, SyncClaim, SyncQueue, SyncRefused, SyncDies, NeverApproved, Receipt, ReceiptCheck,
                    ReceiptPausing
<1>3. ASSUME NEW j \in Jobs, \/ Start(j) \/ ReadOutcome(j) \/ Breaker(j) \/ Pausing(j)
                             \/ Finish(j) \/ Closing(j) \/ ProgressFails(j)
      PROVE  Count'
  BY <1>1, <1>3 DEF Start, ReadOutcome, Breaker, Pausing, Finish, Closing, ProgressFails
<1>4. ASSUME NEW j \in Jobs, LockRecipient(j) PROVE Count'
  BY <1>4 DEF LockRecipient, Return
<1>5. ASSUME NEW j \in Jobs, SendAccepted(j) PROVE Count'
  <2>1. pc[j] = "send"
    BY <1>5 DEF SendAccepted
  <2>2. /\ sends' = [sends EXCEPT ![Of(j)] = @ + 1] /\ mark' = [mark EXCEPT ![j] = "sent"]
        /\ UNCHANGED <<lost, wamid, unheard>>
    BY <1>5 DEF SendAccepted, Leaves
  <2> QED
    BY <2>1, <2>2, NothingStands
<1>6. ASSUME NEW j \in Jobs, SendUnmarked(j) \/ JobFails(j) PROVE Count'
  <2>1. UNCHANGED <<wamid, mark, unheard>>
    BY <1>6 DEF SendUnmarked, JobFails
  <2>2. \/ UNCHANGED <<sends, lost>>
        \/ sends' = [sends EXCEPT ![Of(j)] = @ + 1] /\ lost' = [lost EXCEPT ![Of(j)] = @ + 1]
    BY <1>6 DEF SendUnmarked, JobFails, Leaves
  <2> QED
    BY <2>1, <2>2
<1>7. ASSUME NEW j \in Jobs, SendRefused(j) PROVE Count'
  BY <1>7 DEF SendRefused
<1>11. ASSUME NEW j \in Jobs, SendUnanswered(j) PROVE Count'
  <2>1. pc[j] = "send"
    BY <1>11 DEF SendUnanswered
  <2>2. /\ sends' = [sends EXCEPT ![Of(j)] = @ + 1] /\ mark' = [mark EXCEPT ![j] = "failed"]
        /\ UNCHANGED <<lost, wamid>> /\ unheard' = unheard \cup {Of(j)}
    BY <1>11 DEF SendUnanswered, Leaves
  <2> QED
    BY <2>1, <2>2, NothingStands
<1>8. ASSUME NEW j \in Jobs, Commit(j) PROVE Count'
  BY <1>8 DEF Commit, Return, Forget
<1>9. ASSUME NEW j \in Jobs, Crash(j) PROVE Count'
  <2>0. /\ UNCHANGED <<wamid, sends>> /\ mark' = [mark EXCEPT ![j] = "none"]
        /\ lost' = [lost EXCEPT ![Of(j)] = IF Stands(j) THEN @ + 1 ELSE @]
        /\ unheard' = IF Stands(j) THEN unheard \ {Of(j)} ELSE unheard
    BY <1>9 DEF Crash, Forget
  <2>1. CASE mark[j] = "none"
    <3>1. ~Stands(j) /\ mark' = mark
      BY <2>0, <2>1 DEF Stands
    <3> QED
      BY <1>1, <2>0, <3>1
  <2>2. CASE mark[j] # "none"
    <3>1. /\ Of(j) \notin wamid /\ \A k \in Jobs : Of(k) = Of(j) /\ mark[k] # "none" => k = j
      BY <2>2
    <3>2. mark[j] \in {"sent", "failed"} /\ \A k \in Jobs : Of(k) = Of(j) => mark'[k] # "sent"
      BY <2>0, <2>2, <3>1
    <3>3. CASE Stands(j)
      <4>1. sends[Of(j)] = lost[Of(j)] + 1
        BY <3>1, <3>3 DEF Stands
      <4> QED
        BY <2>0, <3>1, <3>2, <3>3, <4>1
    <3>4. CASE ~Stands(j)
      <4>1. Of(j) \notin unheard /\ mark[j] = "failed"
        BY <3>2, <3>4, <2>2 DEF Stands, Unheard
      <4> QED
        BY <2>0, <3>1, <3>2, <3>4, <4>1
    <3> QED
      BY <3>3, <3>4
  <2> QED
    BY <2>1, <2>2
<1>10. CASE UNCHANGED vars
  BY <1>1, <1>10
<1> HIDE DEF IInv, Count
<1> QED
  BY <1>2, <1>3, <1>4, <1>5, <1>6, <1>7, <1>8, <1>9, <1>10, <1>11 DEF Next, JobStep

(* No job gets to its send for a person who has opted out.                 *)
LEMMA LateStep == IInv /\ [Next]_vars => Late'
<1> SUFFICES ASSUME IInv, [Next]_vars PROVE Late'
  OBVIOUS
<1> USE JobFacts DEF IInv, TypeOK, Lock, Late, Holding, vars, campaignVars, jobVars, historyVars
<1>1. ASSUME UNCHANGED <<lateSends, optedOut>>, \A k \in Jobs : pc'[k] = "send" => pc[k] = "send" PROVE Late'
  BY <1>1
<1>2. CASE \/ BeginSend \/ BeginCheck \/ CommitRequest \/ RollBackRequest \/ Resume \/ Stop \/ Sync \/ Receipts
  BY <1>1, <1>2 DEF Sync, Receipts, BeginSend, BeginCheck, CommitRequest, RollBackRequest, Resume, Stop,
                    SyncClaim, SyncQueue, SyncRefused, SyncDies, NeverApproved, Receipt, ReceiptCheck,
                    ReceiptPausing
<1>3. ASSUME NEW r \in Recipients, OptOut(r) PROVE Late'
  BY <1>3 DEF OptOut
<1>4. ASSUME NEW j \in Jobs, \/ Start(j) \/ SendRefused(j) \/ ReadOutcome(j) \/ Breaker(j)
                             \/ Pausing(j) \/ Finish(j) \/ Closing(j) \/ ProgressFails(j) \/ Commit(j) \/ Crash(j)
      PROVE  Late'
  <2>1. UNCHANGED <<lateSends, optedOut>>
    BY <1>4 DEF Start, SendRefused, ReadOutcome, Breaker, Pausing, Finish, Closing, ProgressFails,
                Commit, Crash
  <2>2. \A k \in Jobs : pc'[k] = "send" => pc[k] = "send"
    BY <1>4 DEF Start, SendRefused, ReadOutcome, Breaker, Pausing, Finish, Closing, ProgressFails,
                Commit, Crash, Return, Throw
  <2> QED
    BY <1>1, <2>1, <2>2
<1>5. ASSUME NEW j \in Jobs, LockRecipient(j) PROVE Late'
  BY <1>5 DEF LockRecipient, Return
<1>6. ASSUME NEW j \in Jobs, pc[j] = "send", Leaves(Of(j)), optedOut' = optedOut,
             \A k \in Jobs : pc'[k] = "send" => pc[k] = "send" /\ k # j
      PROVE  Late'
  <2>1. lateSends[Of(j)] = 0 /\ \A k \in Jobs : Of(k) = Of(j) /\ pc[k] = "send" => k = j
    BY <1>6, SMTT(30)
  <2>2. lateSends' = [lateSends EXCEPT ![Of(j)] = IF Of(j) \in optedOut THEN 1 ELSE 0]
    BY <1>6, <2>1 DEF Leaves
  <2> QED
    BY <1>6, <2>1, <2>2
<1>7. ASSUME NEW j \in Jobs, SendAccepted(j) \/ SendUnmarked(j) \/ SendUnanswered(j) PROVE Late'
  <2>1. /\ pc[j] = "send" /\ Leaves(Of(j)) /\ optedOut' = optedOut
        /\ \A k \in Jobs : pc'[k] = "send" => pc[k] = "send" /\ k # j
    BY <1>7 DEF SendAccepted, SendUnmarked, SendUnanswered, Return
  <2> QED
    BY <1>6, <2>1
<1>9. ASSUME NEW j \in Jobs, JobFails(j) PROVE Late'
  <2>1. optedOut' = optedOut /\ \A k \in Jobs : pc'[k] = "send" => pc[k] = "send" /\ k # j
    BY <1>9 DEF JobFails, Throw
  <2>2. CASE UNCHANGED lateSends
    BY <1>1, <2>1, <2>2
  <2>3. CASE pc[j] = "send" /\ Leaves(Of(j))
    BY <1>6, <2>1, <2>3
  <2> QED
    BY <1>9, <2>2, <2>3 DEF JobFails
<1>8. CASE UNCHANGED vars
  BY <1>1, <1>8
<1> HIDE DEF IInv, Late
<1> QED
  BY <1>2, <1>3, <1>4, <1>5, <1>7, <1>8, <1>9 DEF Next, Requests, JobStep

-----------------------------------------------------------------------------
(* Stop and its overrun.                                                   *)

LEMMA ToSendIsActive ==
  ASSUME IInv, Overrun
  PROVE  IsFiniteSet(ToSend) /\ Cardinality(ToSend) <= Cardinality(Active) /\ Cardinality(ToSend) \in Nat
         /\ Cardinality(Active) \in Nat
<1>1. ToSend \subseteq Active
  BY DEF IInv, Queue, ToSend, Active
<1>2. IsFiniteSet(Active)
  BY DEF Overrun
<1> QED
  BY <1>1, <1>2, FS_Subset, FS_CardinalityType

(* A step that starts no job, sends nothing and stops nothing.             *)
LEMMA OverrunKept ==
  ASSUME IInv, Overrun, overrun' = overrun,
         \A j \in Jobs : job'[j] = "active" => job[j] = "active",
         status' = "stopped" => status = "stopped",
         \A j \in Jobs : pc'[j] \in {"lock", "send"} => pc[j] \in {"lock", "send"}
  PROVE  Overrun'
<1>1. Active' \subseteq Active /\ ToSend' \subseteq ToSend
  BY DEF Active, ToSend
<1>2. IsFiniteSet(Active) /\ IsFiniteSet(ToSend)
  BY ToSendIsActive DEF Overrun
<1>3. /\ IsFiniteSet(Active') /\ Cardinality(Active') <= Cardinality(Active) /\ Cardinality(Active') \in Nat
      /\ Cardinality(ToSend') <= Cardinality(ToSend) /\ Cardinality(ToSend') \in Nat
      /\ Cardinality(Active) \in Nat /\ Cardinality(ToSend) \in Nat
  BY <1>1, <1>2, FS_Subset, FS_CardinalityType
<1> QED
  BY <1>3, ConstantsAssumption DEF Overrun, IInv, TypeOK

(* A message that leaves takes its job out of those yet to send.           *)
LEMMA OverrunBySend ==
  ASSUME IInv, Overrun, NEW i \in Jobs, pc[i] = "send", Leaves(Of(i)), status' = status,
         \A j \in Jobs : job'[j] = "active" => job[j] = "active",
         \A j \in Jobs : pc'[j] \in {"lock", "send"} => j # i /\ pc[j] \in {"lock", "send"}
  PROVE  Overrun'
<1>1. Active' \subseteq Active /\ ToSend' \subseteq ToSend \ {i} /\ i \in ToSend
  BY DEF Active, ToSend
<1>2. IsFiniteSet(Active) /\ IsFiniteSet(ToSend)
  BY ToSendIsActive DEF Overrun
<1>3. /\ IsFiniteSet(ToSend \ {i}) /\ Cardinality(ToSend \ {i}) = Cardinality(ToSend) - 1
      /\ Cardinality(ToSend) \in Nat
  BY <1>1, <1>2, FS_RemoveElement, FS_CardinalityType
<1>4. /\ IsFiniteSet(Active') /\ Cardinality(Active') <= Cardinality(Active) /\ Cardinality(Active') \in Nat
      /\ Cardinality(Active) \in Nat
      /\ Cardinality(ToSend') <= Cardinality(ToSend) - 1 /\ Cardinality(ToSend') \in Nat
  BY <1>1, <1>2, <1>3, FS_Subset, FS_CardinalityType
<1>5. overrun' = IF status = "stopped" THEN overrun + 1 ELSE overrun
  BY DEF Leaves
<1> QED
  BY <1>3, <1>4, <1>5, ConstantsAssumption DEF Overrun, IInv, TypeOK

LEMMA OverrunStep == IInv /\ Overrun /\ [Next]_vars => Overrun'
<1> SUFFICES ASSUME IInv, Overrun, [Next]_vars PROVE Overrun'
  OBVIOUS
<1> USE DEF campaignVars, jobVars, controlVars, faultVars, historyVars
<1>0. /\ job \in [Jobs -> {"none", "waiting", "active", "done", "dead"}] /\ pc \in [Jobs -> Step]
      /\ \A j \in Jobs : pc[j] # "idle" <=> job[j] = "active"
  BY DEF IInv, TypeOK, Queue
<1>1. CASE BeginSend \/ BeginCheck \/ CommitRequest \/ RollBackRequest \/ Resume
  <2>1. overrun' = overrun /\ (status' = "stopped" => status = "stopped")
    BY <1>1 DEF BeginSend, BeginCheck, CommitRequest, RollBackRequest, Resume
  <2>2. /\ \A j \in Jobs : job'[j] = "active" => job[j] = "active"
        /\ \A j \in Jobs : pc'[j] \in {"lock", "send"} => pc[j] \in {"lock", "send"}
    BY <1>0, <1>1 DEF BeginSend, BeginCheck, CommitRequest, RollBackRequest, Resume, Enqueue
  <2> QED
    BY <2>1, <2>2, OverrunKept
<1>2. CASE Stop
  <2>1. Active' = Active /\ ToSend' = ToSend /\ overrun' = 0
    BY <1>2 DEF Stop, Active, ToSend
  <2> QED
    BY <2>1, ToSendIsActive, ConstantsAssumption DEF Overrun
<1>3. CASE Sync
  <2>1. /\ overrun' = overrun /\ pc' = pc /\ (status' = "stopped" => status = "stopped")
        /\ \A j \in Jobs : job'[j] = "active" => job[j] = "active"
    BY <1>0, <1>3 DEF Sync, SyncClaim, SyncQueue, SyncRefused, SyncDies, NeverApproved
  <2> QED
    BY <2>1, OverrunKept
<1>4. CASE Receipts \/ (\E r \in Recipients : OptOut(r)) \/ UNCHANGED vars
  <2>1. overrun' = overrun /\ pc' = pc /\ job' = job /\ (status' = "stopped" => status = "stopped")
    BY <1>4 DEF Receipts, Receipt, ReceiptCheck, ReceiptPausing, OptOut, vars
  <2> QED
    BY <2>1, OverrunKept
<1>5. ASSUME NEW i \in Jobs, Start(i) PROVE Overrun'
  <2>0. overrun' = overrun /\ status' = status
    BY <1>5 DEF Start
  <2>1. CASE Return(i) \/ Throw(i)
    <3>1. /\ \A j \in Jobs : job'[j] = "active" => job[j] = "active"
          /\ \A j \in Jobs : pc'[j] \in {"lock", "send"} => pc[j] \in {"lock", "send"}
      BY <1>0, <2>1 DEF Return, Throw
    <3> QED
      BY <2>0, <3>1, OverrunKept
  <2>2. CASE ~Return(i) /\ ~Throw(i)
    <3>1. status # "stopped" /\ job' = [job EXCEPT ![i] = "active"]
      BY <1>5, <2>2 DEF Start
    <3>2. Active' = Active \cup {i} /\ Cardinality(Active) < Concurrency /\ i \notin Active
      BY <1>0, <1>5, <3>1 DEF Active, Start
    <3>3. IsFiniteSet(Active) /\ IsFiniteSet(Active') /\ Cardinality(Active') = Cardinality(Active) + 1
      BY <3>2, FS_AddElement DEF Overrun
    <3>4. Cardinality(Active) \in Nat
      BY <3>3, FS_CardinalityType
    <3> QED
      BY <2>0, <3>1, <3>2, <3>3, <3>4, ConstantsAssumption DEF Overrun
  <2> QED
    BY <2>1, <2>2
<1>6. ASSUME NEW i \in Jobs, SendAccepted(i) \/ SendUnmarked(i) \/ SendUnanswered(i) PROVE Overrun'
  <2>1. pc[i] = "send" /\ Leaves(Of(i)) /\ status' = status
    BY <1>6 DEF SendAccepted, SendUnmarked, SendUnanswered
  <2>2. /\ \A j \in Jobs : job'[j] = "active" => job[j] = "active"
        /\ \A j \in Jobs : pc'[j] \in {"lock", "send"} => j # i /\ pc[j] \in {"lock", "send"}
    BY <1>0, <1>6 DEF SendAccepted, SendUnmarked, SendUnanswered, Return
  <2> QED
    BY <2>1, <2>2, OverrunBySend
<1>7. ASSUME NEW i \in Jobs, \/ LockRecipient(i) \/ SendRefused(i) \/ ReadOutcome(i)
                             \/ Breaker(i) \/ Pausing(i) \/ Finish(i) \/ Closing(i) \/ ProgressFails(i)
                             \/ Crash(i)
      PROVE  Overrun'
  <2>1. overrun' = overrun /\ status' = status
    BY <1>7 DEF LockRecipient, SendRefused, ReadOutcome, Breaker, Pausing, Finish, Closing,
                ProgressFails, Crash
  <2>2. /\ \A j \in Jobs : job'[j] = "active" => job[j] = "active"
        /\ \A j \in Jobs : pc'[j] \in {"lock", "send"} => pc[j] \in {"lock", "send"}
    BY <1>0, <1>7 DEF LockRecipient, SendRefused, ReadOutcome, Breaker, Pausing, Finish,
                      Closing, ProgressFails, Crash, Return
  <2> QED
    BY <2>1, <2>2, OverrunKept
<1>9. ASSUME NEW i \in Jobs, JobFails(i) PROVE Overrun'
  <2>1. /\ status' = status /\ pc[i] \in {"lock", "send"}
        /\ \A j \in Jobs : job'[j] = "active" => job[j] = "active"
        /\ \A j \in Jobs : pc'[j] \in {"lock", "send"} => j # i /\ pc[j] \in {"lock", "send"}
    BY <1>0, <1>9 DEF JobFails, Throw
  <2>2. CASE overrun' = overrun
    BY <2>1, <2>2, OverrunKept
  <2>3. CASE pc[i] = "send" /\ Leaves(Of(i))
    BY <2>1, <2>3, OverrunBySend
  <2> QED
    BY <1>9, <2>2, <2>3 DEF JobFails
<1>8. ASSUME NEW i \in Jobs, Commit(i) PROVE Overrun'
  <2>1. overrun' = overrun /\ (status' = "stopped" => status = "stopped")
    BY <1>8 DEF Commit, IInv, TypeOK
  <2>2. /\ \A j \in Jobs : job'[j] = "active" => job[j] = "active"
        /\ \A j \in Jobs : pc'[j] \in {"lock", "send"} => pc[j] \in {"lock", "send"}
    BY <1>0, <1>8 DEF Commit, Return
  <2> QED
    BY <2>1, <2>2, OverrunKept
<1> QED
  BY <1>1, <1>2, <1>3, <1>4, <1>5, <1>6, <1>7, <1>8, <1>9 DEF Next, Requests, JobStep

-----------------------------------------------------------------------------
(* The end of a campaign.                                                  *)

(* Only a request of Send makes rows, and only its commit shows them.      *)
LEMMA AudienceStep == IInv /\ OneAudience /\ [Next]_vars => OneAudience'
<1> SUFFICES ASSUME IInv, OneAudience, [Next]_vars PROVE OneAudience'
  OBVIOUS
<1> USE DEF campaignVars, jobVars, controlVars, faultVars, historyVars
<1>0. /\ rcpt \in [Recipients -> RcptStatus] /\ presses \in Nat
      /\ \A j \in Jobs : Holding(j) => Of(j) \in Recipients /\ rcpt[Of(j)] = "pending"
      /\ wamid \subseteq Recipients /\ \A r \in wamid : rcpt[r] # "absent"
  BY JobFacts, ConstantsAssumption DEF IInv, TypeOK, Lock
<1>1. ASSUME UNCHANGED <<origin, req, presses>>, status' = "absent" => status = "absent",
             rcpt' = rcpt \/ \E r \in Recipients : rcpt[r] # "absent"
      PROVE  OneAudience'
  BY <1>0, <1>1 DEF OneAudience
<1>2. CASE BeginSend
  <2>1. /\ UNCHANGED <<origin, status, rcpt>> /\ presses' = presses + 1 /\ req'.kind = "send"
        /\ origin = "draft" \/ (status = "absent" /\ presses = 0)
    BY <1>2 DEF BeginSend
  <2> QED
    BY <1>0, <2>1 DEF OneAudience
<1>3. CASE BeginCheck
  <2>1. /\ UNCHANGED <<origin, status, rcpt, presses>> /\ req'.kind = "check" /\ req'.rows = {}
    BY <1>3 DEF BeginCheck
  <2> QED
    BY <2>1 DEF OneAudience
<1>4. CASE CommitRequest
  <2>1. /\ UNCHANGED <<origin, presses>> /\ req' = NoRequest /\ (status' = "absent" => status = "absent")
        /\ rcpt' = [r \in Recipients |-> IF r \in req.rows THEN "pending" ELSE rcpt[r]]
    BY <1>4 DEF CommitRequest
  <2>2. presses = 0 => req.rows = {}
    BY <1>0 DEF OneAudience
  <2> QED
    BY <1>0, <2>1, <2>2 DEF OneAudience, NoRequest
<1>5. CASE RollBackRequest
  <2>1. UNCHANGED <<origin, status, rcpt, presses>> /\ req' = NoRequest
    BY <1>5 DEF RollBackRequest
  <2> QED
    BY <2>1 DEF OneAudience, NoRequest
<1>6. CASE Resume \/ Stop \/ Sync \/ ReceiptCheck \/ ReceiptPausing \/ (\E r \in Recipients : OptOut(r))
  BY <1>1, <1>6 DEF Resume, Stop, Sync, SyncClaim, SyncQueue, SyncRefused, SyncDies, NeverApproved, ReceiptCheck,
                    ReceiptPausing, OptOut
<1>7. ASSUME NEW j \in Jobs, JobStep(j) \/ Crash(j), ~Commit(j) PROVE OneAudience'
  BY <1>1, <1>7 DEF JobStep, Start, LockRecipient, SendAccepted, SendUnmarked, SendUnanswered, SendRefused, JobFails,
                    ReadOutcome, Breaker, Pausing, Finish, Closing, ProgressFails, Crash
<1>8. ASSUME NEW j \in Jobs, Commit(j) PROVE OneAudience'
  <2>1. UNCHANGED <<origin, req, presses>> /\ (status' = "absent" => status = "absent") /\ Holding(j)
    BY <1>8 DEF Commit, Holding, IInv, TypeOK
  <2> QED
    BY <1>0, <1>1, <2>1
<1>9. ASSUME NEW r \in Recipients, NEW new \in {"delivered", "failed"}, Receipt(r, new) PROVE OneAudience'
  BY <1>0, <1>1, <1>9 DEF Receipt
<1>10. CASE UNCHANGED vars
  BY <1>1, <1>10 DEF vars
<1> QED
  BY <1>2, <1>3, <1>4, <1>5, <1>6, <1>7, <1>8, <1>9, <1>10 DEF Next, Requests, Receipts

(* Nobody becomes pending behind a job that has decided; what it writes on *)
(* the campaign is what it decided.                                        *)
LEMMA DecidedStep == IInv /\ OneAudience /\ Decided /\ [Next]_vars => Decided'
<1> SUFFICES ASSUME IInv, OneAudience, Decided, [Next]_vars PROVE Decided'
  OBVIOUS
<1> USE DEF campaignVars, jobVars, controlVars, faultVars, historyVars
<1>0. /\ rcpt \in [Recipients -> RcptStatus] /\ presses \in Nat /\ pc \in [Jobs -> Step]
      /\ verdict \in [Jobs -> {"open", "completed", "failed"}]
      /\ fin \in [Jobs -> {"none", "paused", "completed", "failed"}]
      /\ mark \in [Jobs -> {"none", "sent", "failed"}]
      /\ \A j \in Jobs : Holding(j) => Of(j) \in Recipients /\ rcpt[Of(j)] = "pending"
  BY JobFacts, ConstantsAssumption DEF IInv, TypeOK, Lock
<1>a. \A j \in Jobs : verdict[j] # "open" => Holding(j)
  BY DEF Decided, Holding
(* A step that makes nobody pending, takes no look and closes nothing. *)
<1>1. ASSUME presses' >= presses,
             \A r \in Recipients : rcpt'[r] = "pending" => rcpt[r] = "pending",
             status' = "completed" => status = "completed",
             \A j \in Jobs : verdict'[j] # "open" =>
               /\ verdict'[j] = verdict[j]
               /\ pc'[j] \in {"breaker", "pausing", "finish", "closing", "commit"},
             \A j \in Jobs : fin'[j] \in {"completed", "failed"} => fin'[j] = verdict'[j],
             presses' \in Nat
      PROVE  Decided'
  BY <1>0, <1>1 DEF Decided, CompletedIsSettled, Pending
<1>2. CASE BeginSend \/ BeginCheck \/ Resume \/ Stop \/ Sync \/ (\E r \in Recipients : OptOut(r))
           \/ ReceiptCheck \/ ReceiptPausing \/ UNCHANGED vars
  <2>1. /\ UNCHANGED <<rcpt, pc, verdict, fin>> /\ (status' = "completed" => status = "completed")
        /\ presses' = presses \/ presses' = presses + 1
    BY <1>2 DEF BeginSend, BeginCheck, Resume, Stop, Sync, SyncClaim, SyncQueue, SyncRefused, SyncDies,
                NeverApproved, OptOut, ReceiptCheck, ReceiptPausing, vars
  <2> QED
    BY <1>0, <1>1, <2>1 DEF Decided
<1>3. CASE CommitRequest
  <2>1. /\ UNCHANGED <<presses, pc, verdict, fin>>
        /\ rcpt' = [r \in Recipients |-> IF r \in req.rows THEN "pending" ELSE rcpt[r]]
        /\ status' = "completed" => status = "completed" /\ req.kind # "send"
    BY <1>3 DEF CommitRequest
  <2>2. CASE req.kind = "send"
    <3>1. presses' <= 1 => \A j \in Jobs : verdict[j] = "open"
      BY <1>0, <1>a, <2>1, <2>2 DEF OneAudience
    <3> QED
      BY <2>1, <2>2, <3>1 DEF Decided, CompletedIsSettled
  <2>3. CASE req.kind # "send"
    <3>1. rcpt' = rcpt
      BY <1>0, <2>1, <2>3 DEF OneAudience
    <3> QED
      BY <1>0, <1>1, <2>1, <3>1 DEF Decided
  <2> QED
    BY <2>2, <2>3
<1>4. CASE RollBackRequest
  <2>1. UNCHANGED <<rcpt, status, presses, verdict, fin>>
    BY <1>4 DEF RollBackRequest
  <2>2. \A j \in Jobs : verdict[j] # "open" => pc'[j] = pc[j]
    <3>1. ASSUME NEW j \in Jobs, req.kind = "send", j[2] = batch, job[j] \in {"waiting", "active"}
          PROVE  ~Holding(j)
      BY <1>0, <3>1 DEF IInv, Queue
    <3> QED
      BY <1>0, <1>4, <1>a, <3>1 DEF RollBackRequest
  <2> QED
    BY <1>0, <1>1, <2>1, <2>2 DEF Decided
<1>5. ASSUME NEW i \in Jobs, \/ Start(i) \/ LockRecipient(i) \/ SendAccepted(i) \/ SendUnmarked(i)
                             \/ SendUnanswered(i) \/ SendRefused(i) \/ JobFails(i)
      PROVE  Decided'
  <2>1. UNCHANGED <<rcpt, status, presses, verdict, fin>>
    BY <1>5 DEF Start, LockRecipient, SendAccepted, SendUnmarked, SendUnanswered, SendRefused, JobFails
  <2>2. pc[i] \in {"idle", "lock", "send"} /\ \A j \in Jobs : j # i => pc'[j] = pc[j]
    BY <1>0, <1>5 DEF Start, LockRecipient, SendAccepted, SendUnmarked, SendUnanswered, SendRefused, JobFails, Return, Throw,
                      IInv, Queue
  <2>3. \A j \in Jobs : verdict[j] # "open" => pc'[j] = pc[j]
    BY <2>2 DEF Decided
  <2> QED
    BY <1>0, <1>1, <2>1, <2>3 DEF Decided
<1>6. ASSUME NEW i \in Jobs, Breaker(i) \/ Finish(i) \/ ProgressFails(i) \/ Pausing(i) PROVE Decided'
  <2>1. /\ UNCHANGED <<rcpt, status, presses, verdict>>
        /\ \A j \in Jobs : fin'[j] = fin[j] \/ fin'[j] = "paused"
        /\ \A j \in Jobs : pc'[j] = pc[j] \/ pc'[j] \in {"pausing", "finish", "closing", "commit"}
    BY <1>0, <1>6 DEF Breaker, Finish, ProgressFails, Pausing
  <2> QED
    BY <1>0, <1>1, <2>1 DEF Decided
<1>7. ASSUME NEW i \in Jobs, Closing(i) PROVE Decided'
  <2>1. /\ UNCHANGED <<rcpt, status, presses, verdict>>
        /\ fin' = [fin EXCEPT ![i] = verdict[i]] /\ pc' = [pc EXCEPT ![i] = "commit"]
    BY <1>7 DEF Closing
  <2> QED
    BY <1>0, <1>1, <2>1 DEF Decided
<1>8. ASSUME NEW i \in Jobs, ReadOutcome(i) PROVE Decided'
  <2>1. /\ UNCHANGED <<rcpt, status, presses, fin>> /\ pc[i] = "outcome"
        /\ verdict' = [verdict EXCEPT ![i] = Verdict(View(i))] /\ pc' = [pc EXCEPT ![i] = "breaker"]
    BY <1>8 DEF ReadOutcome
  <2>2. Verdict(View(i)) # "open" => \A r \in Recipients : r # Of(i) => rcpt[r] # "pending"
    BY DEF Verdict, View, Pending
  <2>3. verdict[i] = "open" /\ fin[i] \notin {"completed", "failed"}
    BY <1>0, <2>1 DEF Decided
  <2>4. CompletedIsSettled'
    BY <2>1 DEF Decided, CompletedIsSettled
  <2> QED
    BY <1>0, <2>1, <2>2, <2>3, <2>4 DEF Decided
<1>9. ASSUME NEW i \in Jobs, Commit(i) PROVE Decided'
  <2>1. /\ pc[i] = "commit" /\ Holding(i) /\ mark[i] \in {"sent", "failed"}
        /\ rcpt' = [rcpt EXCEPT ![Of(i)] = mark[i]]
        /\ status' = IF fin[i] = "none" THEN status ELSE fin[i]
        /\ pc' = [pc EXCEPT ![i] = "idle"] /\ presses' = presses
        /\ fin' = [fin EXCEPT ![i] = "none"] /\ verdict' = [verdict EXCEPT ![i] = "open"]
    BY <1>0, <1>9 DEF Commit, Return, Forget, Holding, IInv, Lock
  <2>2. \A r \in Recipients : rcpt'[r] = "pending" => rcpt[r] = "pending" /\ r # Of(i)
    BY <1>0, <2>1
  <2>3. CASE status' = "completed" => status = "completed"
    BY <1>0, <1>1, <2>1, <2>2, <2>3 DEF Decided
  <2>4. CASE status' = "completed" /\ status # "completed"
    <3>1. verdict[i] # "open"
      BY <1>0, <2>1, <2>4 DEF Decided
    <3>2. presses' <= 1 => Pending(rcpt') = {}
      BY <2>1, <2>2, <3>1 DEF Decided, Pending
    <3>3. CompletedIsSettled'
      BY <3>2 DEF CompletedIsSettled, Pending
    <3> QED
      BY <1>0, <2>1, <2>2, <3>3 DEF Decided
  <2> QED
    BY <2>3, <2>4
<1>10. ASSUME NEW i \in Jobs, Crash(i) PROVE Decided'
  <2>1. /\ UNCHANGED <<rcpt, status, presses>> /\ pc' = [pc EXCEPT ![i] = "idle"]
        /\ fin' = [fin EXCEPT ![i] = "none"] /\ verdict' = [verdict EXCEPT ![i] = "open"]
    BY <1>10 DEF Crash, Forget
  <2> QED
    BY <1>0, <1>1, <2>1 DEF Decided
<1>11. ASSUME NEW r \in Recipients, NEW new \in {"delivered", "failed"}, Receipt(r, new) PROVE Decided'
  <2>1. /\ UNCHANGED <<status, presses, pc, verdict, fin>> /\ rcpt' = [rcpt EXCEPT ![r] = new]
    BY <1>11 DEF Receipt
  <2> QED
    BY <1>0, <1>1, <2>1 DEF Decided
<1> QED
  BY <1>2, <1>3, <1>4, <1>5, <1>6, <1>7, <1>8, <1>9, <1>10, <1>11 DEF Next, Requests, Receipts, JobStep

LEMMA Inductive2 == Spec => []IInv2
<1>1. Init => IInv2
  <2> SUFFICES ASSUME Init PROVE IInv2
    OBVIOUS
  <2>1. Active = {} /\ ToSend = {}
    BY DEF Init, Active, ToSend
  <2>2. Overrun
    BY <2>1, FS_EmptySet, ConstantsAssumption DEF Init, Overrun
  <2>3. OneAudience /\ Decided
    BY ConstantsAssumption DEF Init, OneAudience, Decided, CompletedIsSettled, NoRequest
  <2> QED
    BY InitIInv, <2>2, <2>3 DEF IInv2
<1>2. IInv2 /\ [Next]_vars => IInv2'
  BY TypeStep, QueueStep, LockStep, UnheardStep, CountStep, LateStep, OverrunStep, AudienceStep, DecidedStep DEF IInv2, IInv
<1> QED
  BY <1>1, <1>2, PTL DEF Spec

THEOREM Inductive == Spec => []IInv
<1>1. Init => IInv
  BY InitIInv
<1>2. IInv /\ [Next]_vars => IInv'
  BY TypeStep, QueueStep, LockStep, UnheardStep, CountStep, LateStep DEF IInv
<1> QED
  BY <1>1, <1>2, PTL DEF Spec

(* Every variable keeps its type, for every instance: the attempts of a    *)
(* job stay within its limit, and a campaign is closed only on a verdict.  *)
THEOREM TypeCorrect == Spec => []TypeOK
<1>1. IInv => TypeOK
  BY DEF IInv
<1> QED
  BY <1>1, Inductive, PTL

(* However jobs, requests, releases, crashes and failed writes interleave, *)
(* a person is messaged once more only for a message the database lost.    *)
THEOREM OneMessageEach == Spec => []TwiceOnlyIfLost
<1>1. IInv => TwiceOnlyIfLost
  BY DEF IInv, TypeOK, Count, TwiceOnlyIfLost
<1> QED
  BY <1>1, Inductive, PTL

(* At most the message already on its way follows a person's STOP.         *)
THEOREM StopIsHeard == Spec => []OneAfterOptOut
<1>1. IInv => OneAfterOptOut
  BY DEF IInv, Late, OneAfterOptOut
<1> QED
  BY <1>1, Inductive, PTL

(* For any number of workers and queued jobs: a Stop is followed by no     *)
(* more messages than the jobs that one worker runs at once                *)
(* (campaign-control.ts, stopCampaign).                                    *)
THEOREM StopIsBounded == Spec => []StopOverrunBounded
<1>1. IInv2 => StopOverrunBounded
  BY DEF IInv2, Overrun, StopOverrunBounded
<1> QED
  BY <1>1, Inductive2, PTL

(* The finish is decided by each job on what it sees, and still a campaign *)
(* sent once is completed only when everybody has been tried               *)
(* (broadcast-processor.ts, the outcome and the finish).                   *)
THEOREM CompletionIsFinal == Spec => []CompletedIsSettled
<1>1. IInv2 => CompletedIsSettled
  BY DEF IInv2, Decided
<1> QED
  BY <1>1, Inductive2, PTL

(* No request, job or receipt takes a recipient back.                      *)
THEOREM RecipientsGoForward == Spec => OnlyForward
<1> DEFINE Forward == \A r \in Recipients : Rank(rcpt'[r]) >= Rank(rcpt[r])
<1>1. IInv /\ [Next]_vars => [Forward]_vars
  <2> SUFFICES ASSUME IInv, Next PROVE Forward
    OBVIOUS
  <2>0. TypeOK /\ Queue /\ Lock
    BY DEF IInv
  <2>1. CASE CommitRequest
    BY <2>0, <2>1 DEF CommitRequest, TypeOK, RcptStatus, Queue, Rank
  <2>2. ASSUME NEW j \in Jobs, Commit(j) PROVE Forward
    BY <2>0, <2>2, JobFacts DEF Commit, Holding, TypeOK, RcptStatus, Lock, Rank
  <2>3. ASSUME NEW r \in Recipients, NEW new \in {"delivered", "failed"}, Receipt(r, new) PROVE Forward
    BY <2>0, <2>3 DEF Receipt, Advances, TypeOK, RcptStatus, Rank
  <2>4. CASE \/ BeginSend \/ BeginCheck \/ RollBackRequest \/ Resume \/ Stop \/ Sync
             \/ ReceiptCheck \/ ReceiptPausing \/ \E r \in Recipients : OptOut(r)
    <3>1. UNCHANGED rcpt
      BY <2>4 DEF campaignVars, BeginSend, BeginCheck, RollBackRequest, Resume, Stop, OptOut, Sync, SyncClaim,
                  SyncQueue, SyncRefused, SyncDies, NeverApproved, ReceiptCheck, ReceiptPausing
    <3> QED
      BY <2>0, <3>1 DEF TypeOK, RcptStatus, Rank
  <2>5. ASSUME NEW j \in Jobs, JobStep(j) \/ Crash(j), ~Commit(j) PROVE Forward
    <3>1. UNCHANGED rcpt
      BY <2>5 DEF campaignVars, JobStep, Start, LockRecipient, SendAccepted, SendUnmarked, SendUnanswered, SendRefused,
                  JobFails, ReadOutcome, Breaker, Pausing, Finish, Closing, ProgressFails, Crash
    <3> QED
      BY <2>0, <3>1 DEF TypeOK, RcptStatus, Rank
  <2> HIDE DEF Forward
  <2> QED
    BY <2>1, <2>2, <2>3, <2>4, <2>5 DEF Next, Requests, Receipts
<1> QED
  BY <1>1, Inductive, PTL DEF Spec, OnlyForward

-----------------------------------------------------------------------------
(* The refinement of OnceOnly.                                             *)

LEMMA OnceInit == Init => Once!Init
  BY ConstantsAssumption DEF Init, Once!Init, Seen

(* Sending is Leave, the commit of a mark is Decide, a worker that dies    *)
(* with the mark uncommitted is Forget; nothing else shows.                *)
LEMMA OnceStep ==
  ASSUME IInv, [Next]_vars
  PROVE  [Once!Next]_(Once!vars)
<1> DEFINE decision == [r \in Recipients |-> Seen(r)]
           left     == [r \in Recipients |-> sends[r] - lost[r]]
<1>1. TypeOK /\ Queue /\ Lock /\ Unheard /\ Count /\ \A r \in Recipients : sends[r] \in Nat /\ lost[r] \in Nat
  BY DEF IInv, TypeOK
<1>2. ASSUME UNCHANGED <<rcpt, wamid, sends, lost, unheard>> PROVE UNCHANGED Once!vars
  BY <1>2 DEF Once!vars, Seen
<1>3. CASE CommitRequest
  <2>1. UNCHANGED <<sends, lost, unheard>> /\ \A r \in Recipients : Seen(r)' = Seen(r)
    BY <1>1, <1>3 DEF CommitRequest, historyVars, Queue, TypeOK, Seen
  <2> QED
    BY <2>1 DEF Once!vars
<1>4. ASSUME NEW j \in Jobs, SendAccepted(j) \/ SendUnanswered(j) PROVE Once!Leave(Of(j))
  <2>1. Of(j) \in Recipients /\ Of(j) \notin wamid /\ rcpt[Of(j)] = "pending" /\ sends[Of(j)] = lost[Of(j)]
    BY <1>4, NothingStands DEF SendAccepted, SendUnanswered
  <2>2. sends' = [sends EXCEPT ![Of(j)] = @ + 1] /\ lost' = lost
    BY <1>4 DEF SendAccepted, SendUnanswered, Leaves
  <2>3. left[Of(j)] = 0 /\ \A r \in Recipients : left'[r] = IF r = Of(j) THEN 1 ELSE left[r]
    BY <1>1, <2>1, <2>2 DEF TypeOK
  <2>4. left' = [left EXCEPT ![Of(j)] = 1]
    BY <2>3
  <2>5. decision[Of(j)] = "open" /\ decision' = decision
    BY <1>4, <2>1 DEF SendAccepted, SendUnanswered, campaignVars, Seen
  <2>6. unheard' \in {unheard, unheard \cup {Of(j)}}
    BY <1>4 DEF SendAccepted, SendUnanswered
  <2> QED
    BY <2>3, <2>4, <2>5, <2>6 DEF Once!Leave
<1>5. ASSUME NEW j \in Jobs, Commit(j) PROVE Once!Decide
  <2>1. Of(j) \in Recipients /\ Of(j) \notin wamid /\ rcpt[Of(j)] = "pending" /\ mark[j] \in {"sent", "failed"}
    BY <1>1, <1>5, JobFacts DEF Commit, Lock, Holding, TypeOK
  <2>2. /\ UNCHANGED <<sends, lost, unheard>>
        /\ rcpt' = [rcpt EXCEPT ![Of(j)] = mark[j]]
        /\ wamid' = IF mark[j] = "sent" THEN wamid \cup {Of(j)} ELSE wamid
    BY <1>5 DEF Commit, historyVars
  <2>3. \A r \in Recipients : Seen(r)' = IF r = Of(j) THEN mark[j] ELSE Seen(r)
    BY <1>1, <2>1, <2>2 DEF Seen, TypeOK
  <2>4. Seen(Of(j)) = "open"
    BY <2>1 DEF Seen
  <2>5. mark[j] = "sent" => left[Of(j)] = 1
    BY <1>1, <2>1 DEF Count
  <2>6. mark[j] = "failed" => left[Of(j)] = 0 \/ Of(j) \in unheard
    <3>1. ASSUME mark[j] = "failed", NEW k \in Jobs, Of(k) = Of(j) PROVE mark[k] # "sent"
      BY <1>1, <1>5, <3>1 DEF Commit, Lock, Holding
    <3> QED
      BY <1>1, <2>1, <3>1 DEF Count
  <2>7. decision' \in [Recipients -> Once!Decision] /\ left' = left /\ unheard' = unheard
    BY <2>1, <2>2, <2>3 DEF Once!Decision, Seen
  <2>8. ASSUME NEW r \in Recipients, decision'[r] # decision[r]
        PROVE  decision[r] = "open" /\ Once!Truthful(r, decision'[r])
    BY <2>1, <2>3, <2>4, <2>5, <2>6, <2>8 DEF Once!Truthful
  <2> QED
    BY <2>7, <2>8 DEF Once!Decide, Once!Decisions
<1>6. ASSUME NEW r \in Recipients, NEW new \in {"delivered", "failed"}, Receipt(r, new)
      PROVE  UNCHANGED Once!vars
  <2>1. UNCHANGED <<sends, lost, unheard>> /\ \A q \in Recipients : Seen(q)' = Seen(q)
    BY <1>1, <1>6 DEF Receipt, historyVars, TypeOK, Seen
  <2> QED
    BY <2>1 DEF Once!vars
<1>7. CASE \/ BeginSend \/ BeginCheck \/ RollBackRequest \/ Resume \/ Stop \/ Sync
           \/ ReceiptCheck \/ ReceiptPausing \/ \E r \in Recipients : OptOut(r)
  BY <1>2, <1>7 DEF campaignVars, historyVars, BeginSend, BeginCheck, RollBackRequest, Resume, Stop, OptOut,
                    Sync, SyncClaim, SyncQueue, SyncRefused, SyncDies, NeverApproved, ReceiptCheck, ReceiptPausing
<1>8. ASSUME NEW j \in Jobs, SendUnmarked(j) \/ JobFails(j) PROVE UNCHANGED Once!vars
  <2>1. UNCHANGED <<rcpt, wamid, unheard>>
    BY <1>8 DEF SendUnmarked, JobFails, campaignVars
  <2>2. \/ UNCHANGED <<sends, lost>>
        \/ /\ sends' = [sends EXCEPT ![Of(j)] = @ + 1]
           /\ lost'  = [lost EXCEPT ![Of(j)] = @ + 1]
    BY <1>8 DEF SendUnmarked, JobFails, Leaves
  <2>3. \A r \in Recipients : sends'[r] - lost'[r] = sends[r] - lost[r]
    BY <1>1, <2>2 DEF TypeOK
  <2> QED
    BY <2>1, <2>3 DEF Once!vars, Seen
<1>9. ASSUME NEW j \in Jobs, Crash(j) PROVE Once!Forget \/ UNCHANGED Once!vars
  <2>1. MaxCrashes > 0 /\ UNCHANGED <<rcpt, wamid, sends>>
    BY <1>9, ConstantsAssumption, <1>1 DEF Crash, TypeOK, campaignVars
  <2>2. CASE ~Stands(j)
    <3>1. lost' = lost /\ unheard' = unheard
      BY <1>1, <1>9, <2>2 DEF Crash, TypeOK
    <3> QED
      BY <1>2, <2>1, <3>1
  <2>3. CASE Stands(j)
    <3>1. Of(j) \in Recipients /\ Of(j) \notin wamid /\ rcpt[Of(j)] = "pending"
      BY <1>1, <2>3, JobFacts DEF Lock, Holding, Stands
    <3>2. left[Of(j)] = 1 /\ Seen(Of(j)) = "open"
      BY <1>1, <2>3, <3>1 DEF Count, Seen, Stands
    <3>3. lost' = [lost EXCEPT ![Of(j)] = @ + 1] /\ unheard' = unheard \ {Of(j)}
      BY <1>9, <2>3 DEF Crash
    <3>4. \A r \in Recipients : left'[r] = IF r \in {Of(j)} THEN 0 ELSE left[r]
      BY <1>1, <2>1, <3>1, <3>2, <3>3 DEF TypeOK
    <3>5. left' = [r \in Recipients |-> IF r \in {Of(j)} THEN 0 ELSE left[r]]
      BY <3>4
    <3>6. decision' = decision /\ \A r \in {Of(j)} : decision[r] = "open"
      BY <2>1, <3>1, <3>2 DEF Seen
    <3> QED
      <4>1. decision \in [Recipients -> Once!Decision]
        BY DEF Seen, Once!Decision
      <4> QED
        BY <2>1, <3>1, <3>3, <3>5, <3>6, <4>1, ZenonT(60) DEF Once!Forget, Once!Decisions
  <2> QED
    BY <2>2, <2>3
<1>10. ASSUME NEW j \in Jobs, JobStep(j), ~SendAccepted(j), ~SendUnanswered(j), ~SendUnmarked(j), ~JobFails(j), ~Commit(j)
       PROVE  UNCHANGED Once!vars
  BY <1>2, <1>10 DEF campaignVars, historyVars, JobStep, Start, LockRecipient, SendRefused,
                     ReadOutcome, Breaker, Pausing, Finish, Closing, ProgressFails
<1>11. CASE UNCHANGED vars
  BY <1>2, <1>11 DEF vars, campaignVars, historyVars
<1> QED
  BY <1>3, <1>4, <1>5, <1>6, <1>7, <1>8, <1>9, <1>10, <1>11, JobFacts DEF Next, Requests, Receipts, Once!Next

(* For any number of people, jobs and workers, and whatever dies or fails: *)
(* of the messages the database did not lose a person gets one at most,    *)
(* before they are decided, and their row says truly whether it went, but  *)
(* for one marked failed because Meta's answer was lost.                   *)
THEOREM CampaignsAreOnceOnly == Spec => ImplementsOnceOnly
<1>1. Init => Once!Init
  BY OnceInit
<1>2. IInv /\ [Next]_vars => [Once!Next]_(Once!vars)
  BY OnceStep
<1> QED
  BY <1>1, <1>2, Inductive, PTL DEF Spec, ImplementsOnceOnly, Once!Spec

=============================================================================
