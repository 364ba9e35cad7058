------------------------ MODULE EmailCampaignProofs ------------------------
(***************************************************************************)
(* For any campaigns, people and cap, any number of days and attempts, and *)
(* whatever goes wrong how often: nobody is emailed before their day,      *)
(* nobody is left behind, after a no only the email in hand leaves, and    *)
(* every email is a message that leaves once.                              *)
(*                                                                         *)
(* All four rest on what one worker gives: the person of the job in hand   *)
(* stays pending until this job decides them.                              *)
(***************************************************************************)
EXTENDS EmailCampaign, FiniteSetTheorems, TLAPS

(* The job in hand: its day has come, and how far its person is.           *)
InHand ==
  /\ pc # "idle" => plannedFor[Rcpt] # Never /\ plannedFor[Rcpt] <= day
  /\ pc \in {"send", "unplug", "mark", "refuse"} => row[Rcpt] = "pending"
  /\ pc \in {"check", "pausing", "close"} => row[Rcpt] # "pending"
  /\ pc = "close" => \A r \in Rows : r[1] = Camp => row[r] # "pending"

(* A row is there with its day, and only of a campaign that is there.      *)
Planned ==
  \A r \in Rows : /\ row[r] = "absent" <=> plannedFor[r] = Never
                  /\ status[r[1]] = "absent" => row[r] = "absent"
                  /\ row[r] = "absent" => \A j \in Jobs : j[1] = r => job[j] = "none"

(* A new Resume finds its job ids free.                                    *)
Fresh == /\ resumes <= events
         /\ \A j \in Jobs : job[j] # "none" => j[2] <= resumes

(* What has left, as far as it is known, against what the row says.        *)
Written(r) ==
  /\ row[r] = "absent" => sends[r] = 0 /\ lost[r] = 0
  /\ row[r] \in {"absent", "pending"} => sentOn[r] = Never
  /\ row[r] = "pending" => sends[r] = lost[r] + (IF pc = "mark" /\ Rcpt = r THEN 1 ELSE 0)
  /\ row[r] = "sent" => sentOn[r] # Never
  /\ row[r] = "failed" /\ sentOn[r] = Never => sends[r] = lost[r]
  /\ sentOn[r] # Never => sends[r] = lost[r] + 1
LeftAsWritten == \A r \in Rows : Written(r)

(* A sync holds a row that was sent, and the campaign it pauses is sending. *)
OfWhatWasSent == /\ sync # NoRow => row[sync] = "sent"
                 /\ trips => status[sync[1]] = "sending"

Unwanted == optedOut \cup bounced

(* After a no, either the email in hand is yet to leave or it has left.    *)
AfterANo ==
  \A p \in Contacts :
    /\ p \notin Unwanted => afterNo[p] = 0
    /\ afterNo[p] = 0 \/ (afterNo[p] = 1 /\ ~(pc = "send" /\ Person = p))

(* The same for a stopped campaign; a finish may close it, with nobody     *)
(* pending any more.                                                       *)
AfterAStop ==
  \A c \in Campaigns :
    \/ overrun[c] = 0
    \/ /\ overrun[c] = 1
       /\ ~(pc = "send" /\ Camp = c)
       /\ status[c] # "absent"
       /\ status[c] = "stopped" \/ \A r \in Rows : r[1] = c => row[r] # "pending"

IInv == /\ TypeOK /\ InHand /\ Planned /\ Fresh /\ LeftAsWritten /\ OfWhatWasSent
        /\ NotBeforeItsDay /\ NobodyForgotten /\ AfterANo /\ AfterAStop

-----------------------------------------------------------------------------
(* Typing.                                                                 *)

LEMMA HandFacts ==
  ASSUME TypeOK, pc # "idle"
  PROVE  cur \in Jobs /\ Rcpt \in Rows /\ Camp \in Campaigns /\ Person \in Contacts /\ Rcpt = <<Camp, Person>>
BY DEF TypeOK, Jobs, Rows, Rcpt, Camp, Person

LEMMA WaitsAreDays ==
  ASSUME TypeOK, NEW c \in Campaigns, NEW A \in Audiences(c), NEW used, NEW wait \in Plans(A, used),
         NEW p \in A
  PROVE  p \in Contacts /\ wait[p] \in Nat
<1>1. A \subseteq Contacts
  BY ConstantsAssumption DEF Audiences, Reachable
<1>2. Cardinality(A) \in Nat
  BY <1>1, ConstantsAssumption, FS_Subset, FS_CardinalityType
<1>3. wait \in [A -> 0..Cardinality(A)]
  BY DEF Plans
<1> QED BY <1>1, <1>2, <1>3

LEMMA InitTypes == Init => TypeOK
<1> SUFFICES ASSUME Init PROVE TypeOK
  OBVIOUS
<1> USE ConstantsAssumption DEF Init
<1>1. day \in Days /\ made \in [Jobs -> 0..Attempts] /\ resumes \in 0..MaxEvents /\ events \in 0..MaxEvents
  BY DEF Days
<1>2. plannedFor \in [Rows -> Days \cup {Never}] /\ sentOn \in [Rows -> Days \cup {Never}]
  OBVIOUS
<1>3. \A j \in Jobs : job[j] = "active" <=> cur = j
  OBVIOUS
<1>4. /\ sends \in [Rows -> Nat] /\ lost \in [Rows -> Nat]
      /\ afterNo \in [Contacts -> Nat] /\ overrun \in [Campaigns -> Nat]
  OBVIOUS
<1> QED BY <1>1, <1>2, <1>3, <1>4 DEF TypeOK

LEMMA EndsTypes ==
  ASSUME TypeOK, pc # "idle", Ends \/ Throws \/ (GivenUp /\ LetsGo)
  PROVE  /\ job' \in [Jobs -> {"none", "waiting", "active", "done", "dead"}]
         /\ made' \in [Jobs -> 0..Attempts] /\ stalled' \subseteq Jobs
         /\ cur' = NoJob /\ pc' = "idle" /\ verdict' = "open"
         /\ \A j \in Jobs : job'[j] # "active"
         /\ \A j \in Jobs : j # cur => job'[j] = job[j]
         /\ job'[cur] \in {"waiting", "done", "dead"}
<1>1. cur \in Jobs /\ \A j \in Jobs : j # cur => job[j] # "active"
  BY HandFacts DEF TypeOK
<1>2. CASE Ends
  BY <1>1, <1>2, ConstantsAssumption DEF TypeOK, Ends, LetsGo
<1>3. CASE GivenUp /\ LetsGo
  BY <1>1, <1>3, ConstantsAssumption DEF TypeOK, GivenUp, LetsGo
<1>4. CASE Throws /\ ~GivenUp
  BY <1>1, <1>4, ConstantsAssumption DEF TypeOK, Throws, LetsGo
<1> QED BY <1>2, <1>3, <1>4 DEF Throws


(* What QueueCampaign writes.                                              *)
LEMMA QueueWrites ==
  ASSUME TypeOK, Planned, NEW c \in Campaigns, QueueCampaign(c)
  PROVE  \E A \in SUBSET Contacts :
           /\ \A r \in Rows : r[1] = c /\ r[2] \in A =>
                /\ row[r] = "absent" /\ row'[r] = "pending"
                /\ plannedFor'[r] \in Days
           /\ \A r \in Rows : ~(r[1] = c /\ r[2] \in A) => row'[r] = row[r] /\ plannedFor'[r] = plannedFor[r]
           /\ \A j \in Jobs : j[1][1] = c /\ j[1][2] \in A =>
                job[j] = "none" /\ job'[j] = (IF j[2] = 0 THEN "waiting" ELSE "none")
           /\ \A j \in Jobs : ~(j[1][1] = c /\ j[1][2] \in A) => job'[j] = job[j]
           /\ row' = [r \in Rows |-> row'[r]] /\ plannedFor' = [r \in Rows |-> plannedFor'[r]]
           /\ job' = [j \in Jobs |-> job'[j]]
<1>1. PICK A \in Audiences(c) : \E wait \in Plans(A, Cardinality(SentToday)) :
        /\ \A p \in A : day + wait[p] <= MaxDay
        /\ row' = [r \in Rows |-> IF r[1] = c /\ r[2] \in A THEN "pending" ELSE row[r]]
        /\ plannedFor' = [r \in Rows |-> IF r[1] = c /\ r[2] \in A THEN day + wait[r[2]] ELSE plannedFor[r]]
        /\ job' = [j \in Jobs |-> IF j[1][1] = c /\ j[1][2] \in A /\ j[2] = 0 THEN "waiting" ELSE job[j]]
  BY DEF QueueCampaign
<1>2. PICK wait \in Plans(A, Cardinality(SentToday)) :
        /\ \A p \in A : day + wait[p] <= MaxDay
        /\ row' = [r \in Rows |-> IF r[1] = c /\ r[2] \in A THEN "pending" ELSE row[r]]
        /\ plannedFor' = [r \in Rows |-> IF r[1] = c /\ r[2] \in A THEN day + wait[r[2]] ELSE plannedFor[r]]
        /\ job' = [j \in Jobs |-> IF j[1][1] = c /\ j[1][2] \in A /\ j[2] = 0 THEN "waiting" ELSE job[j]]
  BY <1>1
<1>3. A \in SUBSET Contacts
  BY ConstantsAssumption DEF Audiences, Reachable
<1>4. \A p \in A : day + wait[p] \in Days
  BY <1>2, WaitsAreDays, ConstantsAssumption DEF TypeOK, Days
<1>5. status[c] = "absent"
  BY DEF QueueCampaign
<1>6. ASSUME NEW r \in Rows, r[1] = c, r[2] \in A
      PROVE  row[r] = "absent" /\ row'[r] = "pending" /\ plannedFor'[r] \in Days
  BY <1>2, <1>4, <1>5, <1>6 DEF Planned
<1>7. ASSUME NEW j \in Jobs, j[1][1] = c, j[1][2] \in A
      PROVE  job[j] = "none" /\ job'[j] = (IF j[2] = 0 THEN "waiting" ELSE "none")
  <2>1. j[1] \in Rows
    BY DEF Jobs
  <2>2. row[j[1]] = "absent"
    BY <1>5, <1>7, <2>1 DEF Planned
  <2>3. job[j] = "none"
    BY <2>1, <2>2 DEF Planned
  <2> QED BY <1>2, <1>7, <2>3
<1> QED BY <1>2, <1>3, <1>6, <1>7, ZenonT(60)

LEMMA RequestTypes ==
  ASSUME TypeOK, Planned, Fresh, NEW c \in Campaigns, QueueCampaign(c) \/ Resume(c) \/ Stop(c) PROVE TypeOK'
<1> USE ConstantsAssumption DEF workerVars, syncVars, queueVars, historyVars, Happens
<1>1. CASE QueueCampaign(c)
  <2>1. PICK A \in SUBSET Contacts :
           /\ \A r \in Rows : r[1] = c /\ r[2] \in A =>
                /\ row[r] = "absent" /\ row'[r] = "pending"
                /\ plannedFor'[r] \in Days
           /\ \A r \in Rows : ~(r[1] = c /\ r[2] \in A) => row'[r] = row[r] /\ plannedFor'[r] = plannedFor[r]
           /\ \A j \in Jobs : j[1][1] = c /\ j[1][2] \in A =>
                job[j] = "none" /\ job'[j] = (IF j[2] = 0 THEN "waiting" ELSE "none")
           /\ \A j \in Jobs : ~(j[1][1] = c /\ j[1][2] \in A) => job'[j] = job[j]
           /\ row' = [r \in Rows |-> row'[r]] /\ plannedFor' = [r \in Rows |-> plannedFor'[r]]
           /\ job' = [j \in Jobs |-> job'[j]]
    BY <1>1, QueueWrites
  <2>2. plannedFor' \in [Rows -> Days \cup {Never}]
    BY <2>1 DEF TypeOK
  <2>3. row' \in [Rows -> {"absent", "pending", "sent", "failed"}]
    BY <2>1 DEF TypeOK
  <2>4. status' \in [Campaigns -> {"absent", "sending", "paused", "stopped", "completed", "failed"}]
    BY <1>1 DEF TypeOK, QueueCampaign
  <2>5. job' \in [Jobs -> {"none", "waiting", "active", "done", "dead"}]
    BY <2>1 DEF TypeOK
  <2>6. \A j \in Jobs : job'[j] = "active" <=> cur' = j
    BY <1>1, <2>1 DEF TypeOK, QueueCampaign
  <2> QED BY <1>1, <2>2, <2>3, <2>4, <2>5, <2>6 DEF TypeOK, QueueCampaign
<1>2. CASE Resume(c)
  <2>1. resumes' \in 0..MaxEvents /\ events' \in 0..MaxEvents
    BY <1>2 DEF Resume, TypeOK, Fresh
  <2>2. status' \in [Campaigns -> {"absent", "sending", "paused", "stopped", "completed", "failed"}]
    BY <1>2 DEF TypeOK, Resume
  <2>3. job' \in [Jobs -> {"none", "waiting", "active", "done", "dead"}]
    BY <1>2 DEF TypeOK, Resume
  <2>4. \A j \in Jobs : job'[j] = "active" <=> cur' = j
    BY <1>2 DEF TypeOK, Resume
  <2> QED BY <1>2, <2>1, <2>2, <2>3, <2>4 DEF TypeOK, Resume
<1>3. CASE Stop(c)
  BY <1>3 DEF TypeOK, Stop
<1> QED BY <1>1, <1>2, <1>3

LEMMA BesideTypes ==
  ASSUME TypeOK, OfWhatWasSent,
         \/ \E p \in Contacts : Unsubscribe(p) \/ ReadBounce(Address[p])
         \/ SyncCommits \/ SyncFails \/ Tick
  PROVE  TypeOK'
<1> USE ConstantsAssumption DEF workerVars, syncVars, queueVars, historyVars, tableVars, Happens
<1>1. ASSUME NEW p \in Contacts, Unsubscribe(p) PROVE TypeOK'
  BY <1>1 DEF TypeOK, Unsubscribe
<1>2. ASSUME NEW p \in Contacts, ReadBounce(Address[p]) PROVE TypeOK'
  <2>1. PICK r \in Rows : sync' = r
    BY <1>2 DEF ReadBounce, Newest
  <2>2. trips' \in BOOLEAN /\ sync' # NoRow
    BY <1>2, <2>1 DEF ReadBounce
  <2> QED BY <1>2, <2>1, <2>2 DEF TypeOK, ReadBounce
<1>3. CASE SyncCommits
  <2>1. row' \in [Rows -> {"absent", "pending", "sent", "failed"}]
    BY <1>3 DEF TypeOK, SyncCommits
  <2>2. status' \in [Campaigns -> {"absent", "sending", "paused", "stopped", "completed", "failed"}]
    BY <1>3 DEF TypeOK, SyncCommits
  <2>3. bounced' \subseteq Contacts
    BY <1>3 DEF TypeOK, SyncCommits, Rows
  <2> QED BY <1>3, <2>1, <2>2, <2>3 DEF TypeOK, SyncCommits
<1>4. CASE SyncFails
  BY <1>4 DEF TypeOK, SyncFails
<1>5. CASE Tick
  BY <1>5 DEF TypeOK, Tick, Days
<1> QED BY <1>1, <1>2, <1>3, <1>4, <1>5

LEMMA WorkTypes ==
  ASSUME TypeOK, Works \/ AnswerLost \/ DatabaseFails \/ WorkerDies PROVE TypeOK'
<1> USE ConstantsAssumption DEF syncVars, queueVars, historyVars, tableVars, Happens
<1>1. ASSUME NEW j \in Jobs, Take(j) PROVE TypeOK'
  <2>1. /\ job' \in [Jobs -> {"none", "waiting", "active", "done", "dead"}]
        /\ \A k \in Jobs : job'[k] = "active" <=> cur' = k
    BY <1>1 DEF TypeOK, Take, At
  <2> QED BY <1>1, <2>1 DEF TypeOK, Take, At
<1>2. CASE ReadRecipient
  <2>1. CASE Ends
    BY <1>2, <2>1, EndsTypes DEF TypeOK, ReadRecipient, At
  <2>2. CASE ~Ends
    BY <1>2, <2>2 DEF TypeOK, ReadRecipient, At, Goes
  <2> QED BY <2>1, <2>2
<1>3. CASE SignInFails
  BY <1>3 DEF TypeOK, SignInFails, At, Goes
<1>4. CASE PauseForMailbox \/ PauseFailing
  <2>1. Ends /\ pc # "idle"
    BY <1>4 DEF PauseForMailbox, PauseFailing, At
  <2>2. status' \in [Campaigns -> {"absent", "sending", "paused", "stopped", "completed", "failed"}]
    BY <1>4, <2>1, HandFacts DEF TypeOK, PauseForMailbox, PauseFailing
  <2> QED BY <1>4, <2>1, <2>2, EndsTypes DEF TypeOK, PauseForMailbox, PauseFailing
<1>5. ASSUME pc # "idle", Leaves
      PROVE  /\ sends' \in [Rows -> Nat] /\ afterNo' \in [Contacts -> Nat] /\ overrun' \in [Campaigns -> Nat]
  BY <1>5, HandFacts DEF TypeOK, Leaves
<1>6. CASE Accepted
  BY <1>6, <1>5 DEF TypeOK, Accepted, At, Goes
<1>7. CASE Busy \/ AnswerLost
  <2>1. pc # "idle" /\ BusyServer
    BY <1>7 DEF Busy, AnswerLost, BusyServer, At
  <2>2. /\ sends' \in [Rows -> Nat] /\ afterNo' \in [Contacts -> Nat] /\ overrun' \in [Campaigns -> Nat]
        /\ lost' \in [Rows -> Nat] /\ events' \in 0..MaxEvents
        /\ UNCHANGED <<day, tableVars, syncVars, resumes>>
    <3>1. CASE Busy
      BY <3>1 DEF TypeOK, Busy
    <3>2. CASE AnswerLost
      <4>1. lost' \in [Rows -> Nat]
        BY <2>1, <3>2, HandFacts DEF TypeOK, AnswerLost
      <4>2. Leaves /\ events' \in 0..MaxEvents
        BY <3>2 DEF TypeOK, AnswerLost
      <4> QED BY <2>1, <3>2, <4>1, <4>2, <1>5 DEF AnswerLost
    <3> QED BY <1>7, <3>1, <3>2
  <2>3. CASE Throws
    BY <2>1, <2>2, <2>3, EndsTypes DEF TypeOK
  <2>4. CASE ~Throws
    BY <2>1, <2>2, <2>4 DEF TypeOK, BusyServer, TriesAgain, Goes, At
  <2> QED BY <2>3, <2>4
<1>8. CASE Refused
  BY <1>8 DEF TypeOK, Refused, At, Goes
<1>9. CASE MarkSent
  BY <1>9, HandFacts DEF TypeOK, MarkSent, At, Goes
<1>10. CASE MarkFailed
  BY <1>10, HandFacts DEF TypeOK, MarkFailed, At, Goes
<1>11. CASE LookAtCampaign
  <2>1. CASE Ends
    BY <1>11, <2>1, EndsTypes DEF TypeOK, LookAtCampaign, At
  <2>2. CASE ~Ends
    BY <1>11, <2>2 DEF TypeOK, LookAtCampaign, At, Goes, Outcome
  <2> QED BY <2>1, <2>2
<1>12. CASE Close
  <2>1. status' \in [Campaigns -> {"absent", "sending", "paused", "stopped", "completed", "failed"}]
    BY <1>12, HandFacts DEF TypeOK, Close, At
  <2> QED BY <1>12, <2>1, EndsTypes DEF TypeOK, Close, At
<1>13. CASE DatabaseFails
  <2>1. lost' \in [Rows -> Nat] /\ pc # "idle"
    BY <1>13, HandFacts DEF TypeOK, DatabaseFails, Forgets
  <2> QED BY <1>13, <2>1, EndsTypes DEF TypeOK, DatabaseFails
<1>14. CASE WorkerDies
  <2>1. lost' \in [Rows -> Nat] /\ pc # "idle"
    BY <1>14, HandFacts DEF TypeOK, WorkerDies, Forgets, At
  <2>2. CASE GivenUp /\ LetsGo
    BY <1>14, <2>1, <2>2, EndsTypes DEF TypeOK, WorkerDies
  <2>3. CASE ~(GivenUp /\ LetsGo)
    BY <1>14, <2>1, <2>3, HandFacts DEF TypeOK, WorkerDies, LetsGo
  <2> QED BY <2>2, <2>3
<1> QED BY <1>1, <1>2, <1>3, <1>4, <1>6, <1>7, <1>8, <1>9, <1>10, <1>11, <1>12, <1>13, <1>14 DEF Works

LEMMA TypesNext == IInv /\ [Next]_vars => TypeOK'
<1> SUFFICES ASSUME IInv, [Next]_vars PROVE TypeOK'
  OBVIOUS
<1>1. CASE UNCHANGED vars
  BY <1>1 DEF IInv, TypeOK, vars, tableVars, queueVars, workerVars, syncVars, historyVars
<1> QED BY <1>1, RequestTypes, BesideTypes, WorkTypes DEF IInv, Next

-----------------------------------------------------------------------------
(* What a step may do to the rows, to the campaigns, and to the hand.      *)

LEMMA RowsNext ==
  ASSUME IInv, [Next]_vars, NEW r \in Rows
  PROVE  \/ row'[r] = row[r]
         \/ row[r] = "absent" /\ row'[r] = "pending" /\ status[r[1]] = "absent" /\ cur' = cur /\ pc' = pc
            /\ status'[r[1]] = "sending" /\ job'[<<r, 0>>] = "waiting"
         \/ row[r] = "pending" /\ row'[r] \in {"sent", "failed"} /\ pc # "idle" /\ r = Rcpt /\ pc' = "check"
            /\ cur' = cur
         \/ row[r] = "sent" /\ row'[r] = "failed" /\ cur' = cur /\ pc' = pc /\ sync' = NoRow
<1> USE DEF IInv, tableVars, workerVars
<1>1. ASSUME NEW c \in Campaigns, QueueCampaign(c)
      PROVE  \/ row'[r] = row[r]
             \/ row[r] = "absent" /\ row'[r] = "pending" /\ status[r[1]] = "absent" /\ cur' = cur /\ pc' = pc
                /\ status'[r[1]] = "sending" /\ job'[<<r, 0>>] = "waiting"
  <2>1. row'[r] = row[r] \/ (row[r] = "absent" /\ row'[r] = "pending" /\ r[1] = c /\ job'[<<r, 0>>] = "waiting")
    <3>1. <<r, 0>> \in Jobs /\ <<r, 0>>[1] = r /\ <<r, 0>>[2] = 0
      BY ConstantsAssumption DEF Jobs
    <3> QED BY <1>1, <3>1, QueueWrites
  <2>2. status[c] = "absent" /\ cur' = cur /\ pc' = pc /\ status'[c] = "sending"
    BY <1>1 DEF QueueCampaign, TypeOK
  <2> QED BY <2>1, <2>2
<1>2. CASE MarkSent \/ MarkFailed
  BY <1>2, HandFacts DEF MarkSent, MarkFailed, At, Goes, InHand, TypeOK
<1>3. CASE SyncCommits
  BY <1>3 DEF SyncCommits, OfWhatWasSent, TypeOK
<1>4. ASSUME NEW c \in Campaigns, Resume(c) \/ Stop(c) PROVE row' = row
  BY <1>4 DEF Resume, Stop
<1>5. ASSUME NEW p \in Contacts, Unsubscribe(p) \/ ReadBounce(Address[p]) PROVE row' = row
  BY <1>5 DEF Unsubscribe, ReadBounce
<1>6. CASE AnswerLost \/ DatabaseFails \/ WorkerDies \/ SyncFails \/ Tick \/ UNCHANGED vars
  BY <1>6 DEF AnswerLost, DatabaseFails, WorkerDies, SyncFails, Tick, vars
<1>7. CASE Works
  BY <1>2, <1>7 DEF Works, Take, ReadRecipient, SignInFails, PauseForMailbox, Accepted, Busy, Refused,
                LookAtCampaign, PauseFailing, Close
<1> QED BY <1>1, <1>2, <1>3, <1>4, <1>5, <1>6, <1>7 DEF Next

(* The hand takes a job whose day has come, lets it go, or goes on.        *)
LEMMA HandNext ==
  ASSUME IInv, [Next]_vars
  PROVE  \/ pc' = "idle"
         \/ pc = "idle" /\ pc' = "read" /\ cur' \in Jobs /\ job[cur'] = "waiting" /\ plannedFor[cur'[1]] <= day
         \/ cur' = cur /\ pc' = pc
         \/ cur' = cur /\ pc = "read" /\ pc' = "send" /\ row[Rcpt] = "pending"
            /\ Person \notin Unwanted /\ status[Camp] \notin {"paused", "stopped"}
         \/ cur' = cur /\ pc = "read" /\ pc' = "refuse" /\ row[Rcpt] = "pending"
         \/ cur' = cur /\ pc = "send" /\ pc' \in {"unplug", "mark", "refuse"}
         \/ cur' = cur /\ pc \in {"mark", "refuse"} /\ pc' = "check" /\ row'[Rcpt] \in {"sent", "failed"}
         \/ cur' = cur /\ pc = "check" /\ pc' = "pausing"
         \/ cur' = cur /\ pc = "check" /\ pc' = "close" /\ \A r \in Rows : r[1] = Camp => row[r] # "pending"
<1> USE DEF IInv, workerVars
<1>1. ASSUME NEW c \in Campaigns, QueueCampaign(c) \/ Resume(c) \/ Stop(c) PROVE cur' = cur /\ pc' = pc
  BY <1>1 DEF QueueCampaign, Resume, Stop
<1>2. ASSUME NEW p \in Contacts, Unsubscribe(p) \/ ReadBounce(Address[p]) PROVE cur' = cur /\ pc' = pc
  BY <1>2 DEF Unsubscribe, ReadBounce
<1>3. CASE SyncCommits \/ SyncFails \/ Tick \/ UNCHANGED vars
  BY <1>3 DEF SyncCommits, SyncFails, Tick, vars
<1>4. ASSUME NEW j \in Jobs, Take(j)
      PROVE  pc = "idle" /\ pc' = "read" /\ cur' \in Jobs /\ job[cur'] = "waiting" /\ plannedFor[cur'[1]] <= day
  BY <1>4 DEF Take, At, DelayedTo
<1>5. CASE ReadRecipient
  BY <1>5 DEF ReadRecipient, At, Goes, Ends, LetsGo, NothingToDo, Rcpt, Camp, Unwanted
<1>6. CASE SignInFails \/ Accepted \/ Refused
  BY <1>6 DEF SignInFails, Accepted, Refused, At, Goes
<1>7. CASE Busy \/ AnswerLost
  BY <1>7 DEF Busy, AnswerLost, BusyServer, TriesAgain, Throws, LetsGo, At, Goes
<1>8. CASE PauseForMailbox \/ PauseFailing \/ Close \/ DatabaseFails \/ WorkerDies
  BY <1>8 DEF PauseForMailbox, PauseFailing, Close, DatabaseFails, WorkerDies, Ends, Throws, LetsGo
<1>9. CASE MarkSent \/ MarkFailed
  BY <1>9, HandFacts DEF MarkSent, MarkFailed, At, Goes, InHand, TypeOK
<1>10. CASE LookAtCampaign
  <2>1. In(row, Camp, "pending") = {} => \A r \in Rows : r[1] = Camp => row[r] # "pending"
    BY DEF In, RowsOf
  <2> QED BY <1>10, <2>1 DEF LookAtCampaign, At, Goes, Ends, LetsGo
<1> QED BY <1>1, <1>2, <1>3, <1>4, <1>5, <1>6, <1>7, <1>8, <1>9, <1>10 DEF Next, Works

LEMMA CampaignsNext ==
  ASSUME IInv, [Next]_vars, NEW c \in Campaigns
  PROVE  \/ status'[c] = status[c]
         \/ status[c] = "absent" /\ status'[c] = "sending" /\ QueueCampaign(c)
         \/ status[c] = "sending" /\ status'[c] = "paused"
         \/ status[c] = "paused" /\ status'[c] = "sending" /\ Resume(c)
         \/ status[c] \in {"paused", "sending"} /\ status'[c] = "stopped"
         \/ pc = "close" /\ c = Camp /\ status'[c] \in {"completed", "failed"} /\ pc' = "idle"
            /\ UNCHANGED row
<1> USE DEF IInv, tableVars
<1>1. ASSUME NEW d \in Campaigns, QueueCampaign(d) PROVE status'[c] = status[c] \/ (d = c /\ status[c] = "absent" /\ status'[c] = "sending")
  BY <1>1 DEF QueueCampaign, TypeOK
<1>2. ASSUME NEW d \in Campaigns, Resume(d) PROVE status'[c] = status[c] \/ (d = c /\ status[c] = "paused" /\ status'[c] = "sending")
  BY <1>2 DEF Resume, TypeOK
<1>3. ASSUME NEW d \in Campaigns, Stop(d) PROVE status'[c] = status[c] \/ (status[c] \in {"paused", "sending"} /\ status'[c] = "stopped")
  BY <1>3 DEF Stop, TypeOK
<1>4. ASSUME NEW p \in Contacts, Unsubscribe(p) \/ ReadBounce(Address[p]) PROVE status' = status
  BY <1>4 DEF Unsubscribe, ReadBounce
<1>5. CASE SyncCommits
  BY <1>5 DEF SyncCommits, OfWhatWasSent, TypeOK
<1>6. CASE SyncFails \/ Tick \/ AnswerLost \/ DatabaseFails \/ WorkerDies \/ UNCHANGED vars
  BY <1>6 DEF SyncFails, Tick, AnswerLost, DatabaseFails, WorkerDies, vars
<1>7. ASSUME NEW j \in Jobs, Take(j) PROVE status' = status
  BY <1>7 DEF Take
<1>8. CASE PauseForMailbox \/ PauseFailing
  BY <1>8 DEF PauseForMailbox, PauseFailing, TypeOK
<1>9. CASE Close
  BY <1>9 DEF Close, TypeOK, At, Ends, LetsGo
<1>10. CASE ReadRecipient \/ SignInFails \/ Accepted \/ Busy \/ Refused \/ MarkSent \/ MarkFailed \/ LookAtCampaign
  BY <1>10 DEF ReadRecipient, SignInFails, Accepted, Busy, Refused, MarkSent, MarkFailed, LookAtCampaign
<1> QED BY <1>1, <1>2, <1>3, <1>4, <1>5, <1>6, <1>7, <1>8, <1>9, <1>10 DEF Next, Works

(* Days are planned once, when a row is written, and time goes on.         *)
LEMMA DaysNext ==
  ASSUME IInv, [Next]_vars, NEW r \in Rows
  PROVE  /\ \/ plannedFor'[r] = plannedFor[r]
            \/ row[r] = "absent" /\ row'[r] = "pending" /\ plannedFor'[r] \in Days
         /\ row[r] = "absent" /\ row'[r] = "pending" => plannedFor'[r] \in Days
         /\ day' >= day
<1> USE DEF IInv, tableVars
<1>1. ASSUME NEW c \in Campaigns, QueueCampaign(c)
      PROVE  /\ \/ plannedFor'[r] = plannedFor[r] /\ row'[r] = row[r]
                \/ row[r] = "absent" /\ row'[r] = "pending" /\ plannedFor'[r] \in Days
             /\ day' = day
  <2>1. day' = day
    BY <1>1 DEF QueueCampaign
  <2> QED BY <1>1, <2>1, QueueWrites
<1>2. ASSUME ~ \E c \in Campaigns : QueueCampaign(c)
      PROVE  plannedFor' = plannedFor /\ day' \in {day, day + 1} /\ ~(row[r] = "absent" /\ row'[r] = "pending")
  <2>1. plannedFor' = plannedFor /\ day' \in {day, day + 1}
    BY <1>2 DEF Next, Works, Resume, Stop, Unsubscribe, ReadBounce, Take, ReadRecipient, SignInFails,
       PauseForMailbox, Accepted, Busy, Refused, MarkSent, MarkFailed, LookAtCampaign, PauseFailing, Close,
       AnswerLost, DatabaseFails, WorkerDies, SyncCommits, SyncFails, Tick, vars
  <2>2. CASE row' = row
    BY <2>1, <2>2
  <2>3. CASE MarkSent \/ MarkFailed
    BY <2>1, <2>3, HandFacts DEF MarkSent, MarkFailed, At, InHand, TypeOK
  <2>4. CASE SyncCommits
    BY <2>1, <2>4 DEF SyncCommits, OfWhatWasSent, TypeOK
  <2> QED BY <1>2, <2>2, <2>3, <2>4 DEF Next, Works, Resume, Stop, Unsubscribe, ReadBounce, Take, ReadRecipient, SignInFails,
       PauseForMailbox, Accepted, Busy, Refused, LookAtCampaign, PauseFailing, Close,
       AnswerLost, DatabaseFails, WorkerDies, SyncFails, Tick, vars
<1>3. day \in Nat
  BY ConstantsAssumption DEF TypeOK, Days
<1> QED BY <1>1, <1>2, <1>3

(* A job comes with its row or by Resume, is taken, and is let go of.      *)
LEMMA JobsNext ==
  ASSUME IInv, [Next]_vars, NEW j \in Jobs
  PROVE  \/ job'[j] = job[j]
         \/ job[j] = "none" /\ job'[j] = "waiting" /\ j[2] = 0 /\ row'[j[1]] = "pending"
         \/ job[j] = "none" /\ job'[j] = "waiting" /\ j[2] = resumes' /\ row'[j[1]] = "pending"
         \/ job[j] = "waiting" /\ job'[j] = "active"
         \/ pc # "idle" /\ j = cur /\ job'[j] \in {"waiting", "done", "dead"}
            /\ (job'[j] = "done" => ~(row'[Rcpt] = "pending" /\ status'[Camp] = "sending"))
<1> USE DEF IInv, queueVars
<1>1. ASSUME NEW c \in Campaigns, QueueCampaign(c)
      PROVE  \/ job'[j] = job[j]
             \/ job[j] = "none" /\ job'[j] = "waiting" /\ j[2] = 0 /\ row'[j[1]] = "pending"
  <2>1. j[1] \in Rows
    BY DEF Jobs
  <2> QED BY <1>1, <2>1, QueueWrites
<1>2. ASSUME NEW c \in Campaigns, Resume(c)
      PROVE  \/ job'[j] = job[j]
             \/ job[j] = "none" /\ job'[j] = "waiting" /\ j[2] = resumes' /\ row'[j[1]] = "pending"
  BY <1>2 DEF Resume, ResumeJob, In, RowsOf, TypeOK
<1>3. ASSUME NEW k \in Jobs, Take(k)
      PROVE  job'[j] = job[j] \/ (job[j] = "waiting" /\ job'[j] = "active")
  BY <1>3 DEF Take, TypeOK
<1>4. ASSUME pc # "idle", Ends \/ Throws \/ (GivenUp /\ LetsGo)
      PROVE  job'[j] = job[j] \/ (j = cur /\ job'[j] \in {"waiting", "done", "dead"})
  BY <1>4, EndsTypes
<1>5. CASE ReadRecipient
  <2>1. pc # "idle" /\ UNCHANGED tableVars /\ (Ends => NothingToDo(Rcpt)) /\ (~Ends => job' = job)
    <3>1. job[cur] = "active"
      BY <1>5, HandFacts DEF TypeOK, ReadRecipient, At
    <3> QED BY <1>5, <3>1, HandFacts DEF ReadRecipient, At, Ends, LetsGo, Goes
  <2> QED BY <1>4, <2>1 DEF NothingToDo, tableVars, Camp, Rcpt
<1>6. CASE PauseForMailbox \/ PauseFailing
  <2>1. pc # "idle" /\ Ends /\ status'[Camp] # "sending"
    BY <1>6, HandFacts DEF PauseForMailbox, PauseFailing, At, TypeOK
  <2> QED BY <1>4, <2>1
<1>7. CASE LookAtCampaign \/ Close
  <2>1. pc \in {"check", "close"} /\ row' = row /\ (job' = job \/ Ends)
    BY <1>7 DEF LookAtCampaign, Close, At, tableVars
  <2>2. pc # "idle" /\ row'[Rcpt] # "pending"
    BY <2>1 DEF InHand
  <2> QED BY <1>4, <2>1, <2>2
<1>8. CASE Busy \/ AnswerLost \/ DatabaseFails
  <2>1. pc # "idle" /\ (job' = job \/ (Throws /\ job'[cur] # "done"))
    <3>1. pc # "idle" /\ (job' = job \/ Throws)
      BY <1>8 DEF Busy, AnswerLost, BusyServer, TriesAgain, At, DatabaseFails
    <3>2. Throws => job'[cur] # "done"
      BY <3>1, HandFacts DEF Throws, GivenUp, TypeOK
    <3> QED BY <3>1, <3>2
  <2> QED BY <1>4, <2>1
<1>9. CASE WorkerDies
  <2>1. pc # "idle"
    BY <1>9 DEF WorkerDies, At
  <2> QED BY <1>9, <2>1, HandFacts DEF WorkerDies, GivenUp, TypeOK
<1>10. ASSUME NEW c \in Campaigns, Stop(c) PROVE job' = job
  BY <1>10 DEF Stop
<1>11. ASSUME NEW p \in Contacts, Unsubscribe(p) \/ ReadBounce(Address[p]) PROVE job' = job
  BY <1>11 DEF Unsubscribe, ReadBounce
<1>12. CASE SignInFails \/ Accepted \/ Refused \/ MarkSent \/ MarkFailed \/ SyncCommits \/ SyncFails \/ Tick
            \/ UNCHANGED vars
  BY <1>12 DEF SignInFails, Accepted, Refused, MarkSent, MarkFailed, SyncCommits, SyncFails, Tick, vars
<1> QED BY <1>1, <1>2, <1>3, <1>5, <1>6, <1>7, <1>8, <1>9, <1>10, <1>11, <1>12 DEF Next, Works

(* What a step may do to the history: an email leaves from the hand.       *)
LEMMA HistoryNext ==
  ASSUME IInv, [Next]_vars
  PROVE  \/ UNCHANGED <<sends, afterNo, overrun>>
         \/ /\ pc = "send" /\ pc' # "send" /\ Leaves
            /\ UNCHANGED <<day, tableVars>>
<1>1. CASE Accepted \/ AnswerLost
  BY <1>1 DEF Accepted, AnswerLost, BusyServer, TriesAgain, Throws, LetsGo, Goes, At
<1>2. CASE ~(Accepted \/ AnswerLost)
  BY <1>2 DEF Next, Works, QueueCampaign, Resume, Stop, Unsubscribe, ReadBounce, Take, ReadRecipient, SignInFails,
       PauseForMailbox, Busy, Refused, MarkSent, MarkFailed, LookAtCampaign, PauseFailing, Close,
       DatabaseFails, WorkerDies, SyncCommits, SyncFails, Tick, vars, historyVars
<1> QED BY <1>1, <1>2

-----------------------------------------------------------------------------
LEMMA InHandNext == IInv /\ [Next]_vars => InHand'
<1> SUFFICES ASSUME IInv, [Next]_vars PROVE InHand'
  OBVIOUS
<1>1. TypeOK'
  BY TypesNext
<1> SUFFICES ASSUME pc' # "idle" PROVE InHand'
  BY DEF InHand
<1>2. cur' \in Jobs /\ Rcpt' \in Rows /\ Camp' \in Campaigns
  BY <1>1 DEF TypeOK, Jobs, Rows, Rcpt, Camp
<1>3. plannedFor'[Rcpt'] # Never /\ plannedFor'[Rcpt'] <= day'
  <2>1. plannedFor[Rcpt'] # Never /\ plannedFor[Rcpt'] <= day /\ row[Rcpt'] # "absent"
    BY <1>2, HandNext DEF IInv, InHand, Planned, Rcpt, Jobs
  <2>2. plannedFor'[Rcpt'] = plannedFor[Rcpt'] /\ day' >= day
    BY <1>2, <2>1, DaysNext
  <2>3. plannedFor[Rcpt'] \in Int /\ day \in Int /\ day' \in Int
    BY <1>1, <1>2 DEF IInv, TypeOK, Days, Never
  <2> QED BY <2>1, <2>2, <2>3
<1>4. pc' \in {"send", "unplug", "mark", "refuse"} => row'[Rcpt'] = "pending"
  <2> SUFFICES ASSUME pc' \in {"send", "unplug", "mark", "refuse"} PROVE row'[Rcpt'] = "pending"
    OBVIOUS
  <2>1. row[Rcpt'] = "pending" /\ cur' = cur
    BY HandNext DEF IInv, InHand, Rcpt
  <2> QED BY <1>2, <2>1, RowsNext DEF Rcpt
<1>5. pc' \in {"check", "pausing", "close"} => row'[Rcpt'] # "pending"
  <2> SUFFICES ASSUME pc' \in {"check", "pausing", "close"} PROVE row'[Rcpt'] # "pending"
    OBVIOUS
  <2>1. cur' = cur
    BY HandNext
  <2>2. CASE pc \in {"mark", "refuse"} /\ pc' = "check" /\ row'[Rcpt] \in {"sent", "failed"}
    BY <2>1, <2>2 DEF Rcpt
  <2>3. CASE row[Rcpt] # "pending"
    <3>1. row[Rcpt] # "absent"
      BY <1>2, <2>1, HandNext DEF IInv, InHand, Planned, Rcpt
    <3> QED BY <1>2, <2>1, <2>3, <3>1, RowsNext DEF Rcpt
  <2> QED BY <2>1, <2>2, <2>3, HandNext DEF IInv, InHand
<1>6. pc' = "close" => \A r \in Rows : r[1] = Camp' => row'[r] # "pending"
  <2> SUFFICES ASSUME pc' = "close", NEW r \in Rows, r[1] = Camp' PROVE row'[r] # "pending"
    OBVIOUS
  <2>1. cur' = cur /\ row[r] # "pending" /\ pc # "idle"
    BY HandNext DEF IInv, InHand, Camp
  <2>2. status[Camp] # "absent"
    BY <2>1, HandFacts DEF IInv, InHand, Planned
  <2> QED BY <2>1, <2>2, RowsNext DEF Camp
<1> QED BY <1>3, <1>4, <1>5, <1>6 DEF InHand

LEMMA PlannedNext == IInv /\ [Next]_vars => Planned'
<1> SUFFICES ASSUME IInv, [Next]_vars, NEW r \in Rows
             PROVE  /\ row'[r] = "absent" <=> plannedFor'[r] = Never
                    /\ status'[r[1]] = "absent" => row'[r] = "absent"
                    /\ row'[r] = "absent" => \A j \in Jobs : j[1] = r => job'[j] = "none"
  BY DEF Planned
<1>1. Never \notin Days /\ r[1] \in Campaigns
  BY DEF Never, Days, Rows
<1>2. row'[r] = "absent" <=> plannedFor'[r] = Never
  BY <1>1, RowsNext, DaysNext, ZenonT(60) DEF IInv, Planned
<1>3. status'[r[1]] = "absent" => row'[r] = "absent"
  BY <1>1, RowsNext, CampaignsNext, ZenonT(60) DEF IInv, Planned
<1>4. ASSUME row'[r] = "absent", NEW j \in Jobs, j[1] = r PROVE job'[j] = "none"
  <2>1. row[r] = "absent" /\ job[j] = "none"
    BY <1>4, RowsNext DEF IInv, Planned
  <2>2. pc # "idle" => Rcpt # r
    BY <2>1 DEF IInv, InHand, Planned
  <2> QED BY <1>4, <2>1, <2>2, JobsNext DEF Rcpt
<1> QED BY <1>2, <1>3, <1>4

LEMMA FreshNext == IInv /\ [Next]_vars => Fresh'
<1> SUFFICES ASSUME IInv, [Next]_vars PROVE Fresh'
  OBVIOUS
<1>1. TypeOK'
  BY TypesNext
<1>2. resumes' <= events' /\ resumes' >= resumes
  <2>1. \/ resumes' = resumes /\ events' \in {events, events + 1}
        \/ resumes' = resumes + 1 /\ events' = events + 1
    BY DEF Next, Works, QueueCampaign, Resume, Stop, Unsubscribe, ReadBounce, Take, ReadRecipient, SignInFails,
       PauseForMailbox, Accepted, Busy, AnswerLost, Refused, MarkSent, MarkFailed, LookAtCampaign, PauseFailing,
       Close, DatabaseFails, WorkerDies, SyncCommits, SyncFails, Tick, vars, Happens
  <2> QED BY <2>1, <1>1 DEF IInv, Fresh, TypeOK
<1>3. ASSUME NEW j \in Jobs, job'[j] # "none" PROVE j[2] <= resumes'
  <2>1. j[2] \in Nat /\ resumes \in Nat /\ resumes' \in Nat
    BY <1>1, ConstantsAssumption DEF IInv, TypeOK, Jobs
  <2>2. CASE job[j] # "none"
    BY <1>2, <2>1, <2>2 DEF IInv, Fresh
  <2>3. CASE job[j] = "none"
    <3>1. j = cur => pc = "idle"
      BY <2>3 DEF IInv, TypeOK
    <3> QED BY <1>3, <2>1, <2>3, <3>1, JobsNext
  <2> QED BY <2>2, <2>3
<1> QED BY <1>2, <1>3 DEF Fresh

LEMMA NobodyForgottenNext == IInv /\ [Next]_vars => NobodyForgotten'
<1> SUFFICES ASSUME IInv, [Next]_vars, NEW r \in Rows, row'[r] = "pending", status'[r[1]] = "sending"
             PROVE  \E j \in Jobs : j[1] = r /\ job'[j] \in {"waiting", "active", "dead"}
  BY DEF NobodyForgotten
<1>1. r[1] \in Campaigns
  BY DEF Rows
<1>2. CASE row[r] = "absent"
  <2>1. <<r, 0>> \in Jobs /\ <<r, 0>>[1] = r
    BY ConstantsAssumption DEF Jobs
  <2> QED BY <1>2, <2>1, RowsNext
<1>3. CASE row[r] # "absent"
  <2>1. row[r] = "pending" /\ status[r[1]] # "absent"
    BY <1>3, RowsNext DEF IInv, Planned
  <2>2. CASE status[r[1]] = "sending"
    <3>1. PICK j \in Jobs : j[1] = r /\ job[j] \in {"waiting", "active", "dead"}
      BY <2>1, <2>2 DEF IInv, NobodyForgotten
    <3>2. job'[j] \in {"waiting", "active", "dead"}
      BY <3>1, JobsNext DEF Rcpt, Camp
    <3> QED BY <3>1, <3>2
  <2>3. CASE Resume(r[1])
    <3>1. resumes + 1 \in 0..MaxEvents
      BY <2>3, ConstantsAssumption DEF IInv, TypeOK, Fresh, Resume, Happens
    <3>2. <<r, resumes + 1>> \in Jobs /\ <<r, resumes + 1>>[1] = r /\ <<r, resumes + 1>>[2] = resumes + 1
      BY <3>1 DEF Jobs
    <3>3. resumes \in Nat
      BY ConstantsAssumption DEF IInv, TypeOK
    <3>4. job[<<r, resumes + 1>>] = "none"
      BY <3>2, <3>3 DEF IInv, Fresh
    <3>5. r \in In(row, r[1], "pending")
      BY <2>1 DEF In, RowsOf
    <3>6. job'[<<r, resumes + 1>>] = "waiting"
      BY <2>3, <3>2, <3>4, <3>5 DEF Resume, ResumeJob
    <3> QED BY <3>2, <3>6
  <2> QED BY <1>1, <2>1, <2>2, <2>3, CampaignsNext
<1> QED BY <1>2, <1>3

(* A step that leaves the history and the hand's marking alone.            *)
LEMMA WrittenKept ==
  ASSUME IInv, NEW r \in Rows,
         UNCHANGED <<sentOn, sends, lost>>, pc # "mark", pc' # "mark",
         \/ row'[r] = row[r] \/ (row[r] = "absent" /\ row'[r] = "pending")
         \/ (row[r] = "sent" /\ row'[r] = "failed")
  PROVE  Written(r)'
<1>1. sends[r] \in Nat /\ lost[r] \in Nat
  BY DEF IInv, TypeOK
<1> QED BY <1>1 DEF IInv, LeftAsWritten, Written

LEMMA WrittenBeside ==
  ASSUME IInv, NEW r \in Rows,
         UNCHANGED <<sentOn, sends, lost, cur, pc>>,
         \/ row'[r] = row[r] \/ (row[r] = "absent" /\ row'[r] = "pending")
         \/ (row[r] = "sent" /\ row'[r] = "failed")
  PROVE  Written(r)'
<1>1. sends[r] \in Nat /\ lost[r] \in Nat
  BY DEF IInv, TypeOK
<1>2. row[r] # "pending" => ~(pc = "mark" /\ Rcpt = r)
  BY DEF IInv, InHand
<1>3. Rcpt' = Rcpt
  BY DEF Rcpt
<1> QED BY <1>1, <1>2, <1>3 DEF IInv, LeftAsWritten, Written

LEMMA LeftAsWrittenNext == IInv /\ [Next]_vars => LeftAsWritten'
<1> SUFFICES ASSUME IInv, [Next]_vars, NEW r \in Rows PROVE Written(r)'
  BY DEF LeftAsWritten
<1>1. /\ sends[r] \in Nat /\ lost[r] \in Nat /\ day # Never
      /\ TypeOK /\ InHand /\ Written(r)
  BY DEF IInv, TypeOK, Days, Never, LeftAsWritten
<1>2. CASE \E c \in Campaigns : QueueCampaign(c) \/ Resume(c) \/ Stop(c)
  <2>1. UNCHANGED <<sentOn, sends, lost, cur, pc>>
    BY <1>2 DEF QueueCampaign, Resume, Stop, historyVars, workerVars
  <2>2. row'[r] = row[r] \/ (row[r] = "absent" /\ row'[r] = "pending")
    BY <1>2, QueueWrites DEF Resume, Stop, IInv
  <2> QED BY <2>1, <2>2, WrittenBeside
<1>3. CASE \/ \E p \in Contacts : Unsubscribe(p) \/ ReadBounce(Address[p])
           \/ SyncCommits \/ SyncFails \/ Tick \/ UNCHANGED vars
  <2>1. UNCHANGED <<sentOn, sends, lost, cur, pc>>
    BY <1>3 DEF Unsubscribe, ReadBounce, SyncCommits, SyncFails, Tick, vars, historyVars, workerVars, tableVars
  <2>2. row' = row \/ SyncCommits
    BY <1>3 DEF Unsubscribe, ReadBounce, SyncFails, Tick, vars, tableVars
  <2>3. SyncCommits => row'[r] = row[r] \/ (row[r] = "sent" /\ row'[r] = "failed")
    BY DEF SyncCommits, IInv, OfWhatWasSent, TypeOK
  <2> QED BY <2>1, <2>2, <2>3, WrittenBeside
<1>4. CASE \/ \E j \in Jobs : Take(j)
           \/ ReadRecipient \/ SignInFails \/ PauseForMailbox \/ Busy \/ Refused \/ LookAtCampaign
           \/ PauseFailing \/ Close
  <2>1. UNCHANGED <<row, sentOn, sends, lost>>
    BY <1>4 DEF Take, ReadRecipient, SignInFails, PauseForMailbox, Busy, Refused, LookAtCampaign,
         PauseFailing, Close, tableVars, historyVars
  <2>2. pc # "mark" /\ pc' # "mark"
    BY <1>4 DEF Take, ReadRecipient, SignInFails, PauseForMailbox, Busy, BusyServer, TriesAgain, Throws,
         Refused, LookAtCampaign, PauseFailing, Close, At, Goes, Ends, LetsGo
  <2> QED BY <2>1, <2>2, WrittenKept
<1>5. CASE Accepted
  <2>1. pc = "send" /\ pc' = "mark" /\ cur' = cur /\ row[Rcpt] = "pending" /\ UNCHANGED <<row, sentOn, lost>>
    BY <1>1, <1>5 DEF Accepted, At, Goes, InHand, tableVars
  <2>2. sends' = [sends EXCEPT ![Rcpt] = @ + 1]
    BY <1>5 DEF Accepted, Leaves
  <2> QED BY <1>1, <2>1, <2>2, HandFacts DEF Written, Rcpt, TypeOK
<1>6. CASE AnswerLost
  <2>1. pc = "send" /\ pc' # "mark" /\ UNCHANGED <<row, sentOn>>
    BY <1>6 DEF AnswerLost, BusyServer, TriesAgain, Throws, At, Goes, LetsGo, tableVars
  <2>2. sends' = [sends EXCEPT ![Rcpt] = @ + 1] /\ lost' = [lost EXCEPT ![Rcpt] = @ + 1]
    BY <1>6 DEF AnswerLost, Leaves
  <2>3. row[Rcpt] = "pending"
    BY <1>1, <2>1 DEF InHand
  <2>4. Rcpt \in Rows
    BY <1>1, <2>1, HandFacts
  <2>5. CASE r = Rcpt
    <3>1. sends'[r] = sends[r] + 1 /\ lost'[r] = lost[r] + 1
      BY <2>2, <2>4, <2>5 DEF IInv, TypeOK
    <3> QED BY <1>1, <2>1, <2>3, <2>5, <3>1 DEF Written
  <2>6. CASE r # Rcpt
    <3>1. sends'[r] = sends[r] /\ lost'[r] = lost[r]
      BY <2>2, <2>6 DEF IInv, TypeOK
    <3> QED BY <1>1, <2>1, <2>6, <3>1 DEF Written
  <2> QED BY <2>5, <2>6
<1>7. CASE MarkSent
  <2>1. /\ pc = "mark" /\ pc' = "check" /\ row[Rcpt] = "pending" /\ Rcpt \in Rows
        /\ UNCHANGED <<sends, lost>>
    BY <1>1, <1>7, HandFacts DEF MarkSent, At, Goes, InHand, historyVars
  <2>2. row' = [row EXCEPT ![Rcpt] = "sent"] /\ sentOn' = [sentOn EXCEPT ![Rcpt] = day]
    BY <1>7, <2>1 DEF MarkSent, TypeOK, IInv
  <2> QED BY <1>1, <2>1, <2>2 DEF Written, TypeOK
<1>8. CASE MarkFailed
  <2>1. /\ pc = "refuse" /\ pc' = "check" /\ row[Rcpt] = "pending" /\ Rcpt \in Rows
        /\ UNCHANGED <<sends, lost, sentOn>>
    BY <1>1, <1>8, HandFacts DEF MarkFailed, At, Goes, InHand, historyVars
  <2>2. row' = [row EXCEPT ![Rcpt] = "failed"]
    BY <1>8, <2>1 DEF MarkFailed, TypeOK, IInv
  <2> QED BY <1>1, <2>1, <2>2 DEF Written, TypeOK
<1>9. CASE DatabaseFails \/ WorkerDies
  <2>1. pc # "idle" /\ pc' = "idle" /\ Forgets /\ UNCHANGED <<row, sentOn, sends>>
    BY <1>9 DEF DatabaseFails, WorkerDies, Throws, LetsGo, At, tableVars
  <2>2. CASE pc = "mark"
    <3>1. lost' = [lost EXCEPT ![Rcpt] = @ + 1] /\ Rcpt \in Rows /\ row[Rcpt] = "pending"
      BY <1>1, <2>1, <2>2, HandFacts DEF Forgets, At, InHand
    <3> QED BY <1>1, <2>1, <2>2, <3>1 DEF Written, TypeOK
  <2>3. CASE pc # "mark"
    <3>1. lost' = lost
      BY <2>1, <2>3 DEF Forgets, At
    <3> QED BY <2>1, <2>3, <3>1, WrittenKept
  <2> QED BY <2>2, <2>3
<1> QED BY <1>2, <1>3, <1>4, <1>5, <1>6, <1>7, <1>8, <1>9 DEF Next, Works

LEMMA OfWhatWasSentNext == IInv /\ [Next]_vars => OfWhatWasSent'
<1> SUFFICES ASSUME IInv, [Next]_vars PROVE OfWhatWasSent'
  OBVIOUS
<1> USE DEF IInv, OfWhatWasSent
<1>1. ASSUME NEW p \in Contacts, ReadBounce(Address[p]) PROVE OfWhatWasSent'
  BY <1>1 DEF ReadBounce, Newest, tableVars
<1>2. CASE SyncCommits \/ SyncFails
  BY <1>2 DEF SyncCommits, SyncFails, TypeOK
<1>3. CASE UNCHANGED syncVars
  <2>1. sync' = sync /\ trips' = trips
    BY <1>3 DEF syncVars
  <2>2. sync # NoRow => row'[sync] = "sent"
    BY <2>1, RowsNext DEF TypeOK
  <2>3. trips => sync \in Rows /\ sync[1] \in Campaigns /\ status[sync[1]] = "sending"
    BY DEF TypeOK, Rows
  <2>4. ASSUME trips PROVE status'[sync[1]] = "sending"
    <3>1. ASSUME NEW c \in Campaigns, QueueCampaign(c) \/ Resume(c) \/ Stop(c) PROVE status'[sync[1]] = status[sync[1]]
      BY <2>3, <2>4, <3>1 DEF QueueCampaign, Resume, Stop, CampaignFree, TypeOK
    <3>2. CASE PauseForMailbox \/ PauseFailing \/ Close
      BY <2>3, <2>4, <3>2 DEF PauseForMailbox, PauseFailing, Close, CampaignFree, TypeOK
    <3>3. ASSUME NEW p \in Contacts, Unsubscribe(p) \/ ReadBounce(Address[p]) PROVE status' = status
      BY <3>3 DEF Unsubscribe, ReadBounce, tableVars
    <3>4. CASE SyncCommits \/ SyncFails
      BY <2>1, <2>4, <3>4 DEF SyncCommits, SyncFails
    <3>5. ASSUME NEW j \in Jobs, Take(j) PROVE status' = status
      BY <3>5 DEF Take, tableVars
    <3>6. ASSUME \/ ReadRecipient \/ SignInFails \/ Accepted \/ Busy \/ AnswerLost \/ Refused \/ LookAtCampaign
                 \/ DatabaseFails \/ WorkerDies \/ Tick \/ UNCHANGED vars
          PROVE  status' = status
      BY <3>6 DEF ReadRecipient, SignInFails, Accepted, Busy, AnswerLost, Refused,
           LookAtCampaign, DatabaseFails, WorkerDies, Tick, vars, tableVars
    <3>7. ASSUME MarkSent \/ MarkFailed PROVE status' = status
      BY <3>7 DEF MarkSent, MarkFailed
    <3>8. CASE Works
      BY <2>3, <2>4, <3>2, <3>5, <3>6, <3>7, <3>8 DEF Works
    <3> QED BY <2>3, <2>4, <3>1, <3>3, <3>4, <3>6, <3>8 DEF Next
  <2> QED BY <2>1, <2>2, <2>4
<1>4. ASSUME NEW c \in Campaigns, QueueCampaign(c) \/ Resume(c) \/ Stop(c) PROVE UNCHANGED syncVars
  BY <1>4 DEF QueueCampaign, Resume, Stop
<1>5. ASSUME NEW p \in Contacts, Unsubscribe(p) PROVE UNCHANGED syncVars
  BY <1>5 DEF Unsubscribe
<1>6. CASE Works \/ AnswerLost \/ DatabaseFails \/ WorkerDies \/ Tick \/ UNCHANGED vars
  <2>1. UNCHANGED syncVars
    BY <1>6 DEF Works, Take, ReadRecipient, SignInFails, PauseForMailbox, Accepted, Busy, AnswerLost, Refused,
         MarkSent, MarkFailed, LookAtCampaign, PauseFailing, Close, DatabaseFails, WorkerDies, Tick, vars
  <2> QED BY <2>1, <1>3
<1> QED BY <1>1, <1>2, <1>3, <1>4, <1>5, <1>6 DEF Next

LEMMA NotBeforeItsDayNext == IInv /\ [Next]_vars => NotBeforeItsDay'
<1> SUFFICES ASSUME IInv, [Next]_vars, NEW r \in Rows, sends'[r] > 0
             PROVE  plannedFor'[r] # Never /\ plannedFor'[r] <= day'
  BY DEF NotBeforeItsDay
<1>1. TypeOK /\ TypeOK'
  BY TypesNext DEF IInv
<1>2. plannedFor[r] # Never /\ plannedFor[r] <= day
  <2>1. CASE sends'[r] = sends[r]
    BY <2>1 DEF IInv, NotBeforeItsDay
  <2>2. CASE pc = "send" /\ Leaves /\ r # Rcpt
    BY <1>1, <2>2 DEF Leaves, TypeOK, IInv, NotBeforeItsDay
  <2>3. CASE pc = "send" /\ r = Rcpt
    BY <2>3 DEF IInv, InHand
  <2> QED BY <2>1, <2>2, <2>3, HistoryNext
<1>3. plannedFor'[r] = plannedFor[r] /\ day' >= day
  BY <1>2, DaysNext DEF IInv, Planned
<1>4. plannedFor[r] \in Int /\ day \in Int /\ day' \in Int
  BY <1>1 DEF TypeOK, Days, Never
<1> QED BY <1>2, <1>3, <1>4

LEMMA AfterANoNext == IInv /\ [Next]_vars => AfterANo'
<1> SUFFICES ASSUME IInv, [Next]_vars, NEW p \in Contacts
             PROVE  /\ p \notin Unwanted' => afterNo'[p] = 0
                    /\ afterNo'[p] = 0 \/ (afterNo'[p] = 1 /\ ~(pc' = "send" /\ Person' = p))
  BY DEF AfterANo
<1>1. p \in Unwanted => p \in Unwanted'
  BY DEF Unwanted, Next, Works, QueueCampaign, Resume, Stop, Unsubscribe, ReadBounce, Take, ReadRecipient, SignInFails,
       PauseForMailbox, Accepted, Busy, AnswerLost, Refused, MarkSent, MarkFailed, LookAtCampaign, PauseFailing,
       Close, DatabaseFails, WorkerDies, SyncCommits, SyncFails, Tick, vars, tableVars
<1>2. CASE afterNo' = afterNo
  <2>1. pc' = "send" /\ Person' = p /\ afterNo[p] # 0 => pc = "send" /\ Person = p
    BY HandNext DEF IInv, AfterANo, Person
  <2> QED BY <1>1, <1>2, <2>1 DEF IInv, AfterANo
<1>3. CASE pc = "send" /\ pc' # "send" /\ Leaves /\ UNCHANGED <<day, tableVars>>
  <2>1. Person \in Contacts
    BY <1>3, HandFacts DEF IInv
  <2>2. Unwanted' = Unwanted
    BY <1>3 DEF Unwanted, tableVars
  <2> QED BY <1>3, <2>1, <2>2 DEF Leaves, IInv, TypeOK, AfterANo, Unwanted
<1> QED BY <1>2, <1>3, HistoryNext

LEMMA AfterAStopNext == IInv /\ [Next]_vars => AfterAStop'
<1> SUFFICES ASSUME IInv, [Next]_vars, NEW c \in Campaigns
             PROVE  \/ overrun'[c] = 0
                    \/ /\ overrun'[c] = 1
                       /\ ~(pc' = "send" /\ Camp' = c)
                       /\ status'[c] # "absent"
                       /\ status'[c] = "stopped" \/ \A r \in Rows : r[1] = c => row'[r] # "pending"
  BY DEF AfterAStop
<1>1. CASE overrun' = overrun
  <2> SUFFICES ASSUME overrun[c] # 0
               PROVE  /\ ~(pc' = "send" /\ Camp' = c)
                      /\ status'[c] # "absent"
                      /\ status'[c] = "stopped" \/ \A r \in Rows : r[1] = c => row'[r] # "pending"
    BY <1>1 DEF IInv, AfterAStop
  <2>1. /\ ~(pc = "send" /\ Camp = c) /\ status[c] # "absent"
        /\ status[c] = "stopped" \/ \A r \in Rows : r[1] = c => row[r] # "pending"
    BY DEF IInv, AfterAStop
  <2>2. ~(pc' = "send" /\ Camp' = c)
    <3> SUFFICES ASSUME pc' = "send", Camp' = c PROVE FALSE
      OBVIOUS
    <3>1. cur' = cur /\ pc = "read" /\ row[Rcpt] = "pending" /\ status[Camp] # "stopped" /\ Camp = c
      BY <2>1, HandNext DEF Camp
    <3> QED BY <2>1, <3>1, HandFacts DEF IInv, Camp, Rcpt
  <2>3. status'[c] # "absent"
    BY <2>1, CampaignsNext
  <2>4. ASSUME \A r \in Rows : r[1] = c => row[r] # "pending", NEW r \in Rows, r[1] = c
        PROVE  row'[r] # "pending"
    BY <2>1, <2>4, RowsNext
  <2>5. CASE status[c] = "stopped" /\ status'[c] # "stopped"
    <3>1. pc = "close" /\ c = Camp
      BY <2>5, CampaignsNext
    <3> QED BY <2>2, <2>3, <2>4, <3>1 DEF IInv, InHand
  <2> QED BY <2>1, <2>2, <2>3, <2>4, <2>5
<1>2. CASE pc = "send" /\ pc' # "send" /\ Leaves /\ UNCHANGED <<day, tableVars>>
  <2>1. Camp \in Campaigns
    BY <1>2, HandFacts DEF IInv
  <2>2. status' = status /\ row' = row
    BY <1>2 DEF tableVars
  <2> QED BY <1>2, <2>1, <2>2 DEF Leaves, IInv, TypeOK, AfterAStop
<1> QED BY <1>1, <1>2, HistoryNext

-----------------------------------------------------------------------------
LEMMA InitInv == Init => IInv
<1> SUFFICES ASSUME Init PROVE IInv
  OBVIOUS
<1>1. TypeOK
  BY InitTypes
<1>2. InHand /\ Planned /\ NobodyForgotten /\ OfWhatWasSent
  BY DEF Init, InHand, Planned, NobodyForgotten, OfWhatWasSent, Jobs
<1>3. Fresh /\ LeftAsWritten /\ NotBeforeItsDay
  BY DEF Init, Fresh, LeftAsWritten, Written, NotBeforeItsDay
<1>4. AfterANo /\ AfterAStop
  BY DEF Init, AfterANo, AfterAStop
<1> QED BY <1>1, <1>2, <1>3, <1>4 DEF IInv

LEMMA InvNext == IInv /\ [Next]_vars => IInv'
BY TypesNext, InHandNext, PlannedNext, FreshNext, LeftAsWrittenNext, OfWhatWasSentNext, NotBeforeItsDayNext,
   NobodyForgottenNext, AfterANoNext, AfterAStopNext DEF IInv

LEMMA Inductive == Spec => []IInv
BY InitInv, InvNext, PTL DEF Spec

(* Every variable keeps its type, and the worker's step and its job agree. *)
THEOREM TypeCorrect == Spec => []TypeOK
<1>1. IInv => TypeOK
  BY DEF IInv
<1> QED BY <1>1, Inductive, PTL

(* For any plan, any number of pauses, resumes and retries: no email goes  *)
(* out before the day its person was planned for.                          *)
THEOREM NobodyIsEmailedEarly == Spec => []NotBeforeItsDay
<1>1. IInv => NotBeforeItsDay
  BY DEF IInv
<1> QED BY <1>1, Inductive, PTL

(* For any order of pauses, resumes, deaths and failures: somebody pending *)
(* in a campaign that is sending has a job, or had one BullMQ gave up.     *)
THEOREM NobodyIsForgotten == Spec => []NobodyForgotten
<1>1. IInv => NobodyForgotten
  BY DEF IInv
<1> QED BY <1>1, Inductive, PTL

(* After an unsubscription, a bounce or a stop one email leaves at most,   *)
(* of however many are planned.                                            *)
THEOREM OneEmailInHand == Spec => []OnlyTheOneInHand
<1>1. IInv => OnlyTheOneInHand
  BY DEF IInv, AfterANo, AfterAStop, OnlyTheOneInHand
<1> QED BY <1>1, Inductive, PTL

-----------------------------------------------------------------------------
(* The refinement.                                                         *)

left     == [r \in Rows |-> sends[r] - lost[r]]
decision == [r \in Rows |-> Decided(r)]

LEMMA Stutters ==
  ASSUME \A r \in Rows : sends'[r] - lost'[r] = sends[r] - lost[r],
         \A r \in Rows : Decided(r)' = Decided(r)
  PROVE  UNCHANGED Promise!vars
BY DEF Promise!vars

LEMMA PromiseInit == Init => Promise!Init
BY DEF Init, Promise!Init, Decided

LEMMA PromiseStep == IInv /\ [Next]_vars => [Promise!Next]_(Promise!vars)
<1> SUFFICES ASSUME IInv, [Next]_vars PROVE Promise!Next \/ UNCHANGED Promise!vars
  OBVIOUS
<1>1. TypeOK /\ InHand /\ TypeOK'
  BY TypesNext DEF IInv
<1>2. CASE UNCHANGED <<row, sentOn, sends, lost>>
  BY <1>2, Stutters DEF Decided
<1>3. CASE \E c \in Campaigns : QueueCampaign(c)
  <2>1. UNCHANGED <<sentOn, sends, lost>>
    BY <1>3 DEF QueueCampaign, historyVars
  <2>2. \A r \in Rows : row'[r] = row[r] \/ (row[r] = "absent" /\ row'[r] = "pending")
    BY <1>3, QueueWrites DEF IInv
  <2> QED BY <2>1, <2>2, Stutters DEF Decided
<1>4. CASE SyncCommits
  <2>1. UNCHANGED <<sentOn, sends, lost>>
    BY <1>4 DEF SyncCommits, historyVars
  <2>2. \A r \in Rows : row'[r] = row[r] \/ (row[r] = "sent" /\ row'[r] = "failed" /\ sentOn[r] # Never)
    BY <1>4 DEF SyncCommits, IInv, OfWhatWasSent, LeftAsWritten, Written, TypeOK
  <2> QED BY <2>1, <2>2, Stutters DEF Decided
<1>5. CASE AnswerLost
  <2>1. UNCHANGED <<row, sentOn>> /\ pc # "idle"
    BY <1>5 DEF AnswerLost, tableVars, BusyServer, At
  <2>2. sends' = [sends EXCEPT ![Rcpt] = @ + 1] /\ lost' = [lost EXCEPT ![Rcpt] = @ + 1]
    BY <1>5 DEF AnswerLost, Leaves
  <2>3. \A r \in Rows : sends'[r] - lost'[r] = sends[r] - lost[r]
    BY <1>1, <2>1, <2>2, HandFacts DEF TypeOK
  <2> QED BY <2>1, <2>3, Stutters DEF Decided
<1>6. CASE Accepted
  <2>1. pc = "send" /\ Rcpt \in Rows /\ row[Rcpt] = "pending" /\ UNCHANGED <<row, sentOn, lost>>
    BY <1>1, <1>6, HandFacts DEF Accepted, At, InHand, tableVars
  <2>2. sends' = [sends EXCEPT ![Rcpt] = @ + 1]
    BY <1>6 DEF Accepted, Leaves
  <2>3. sends[Rcpt] = lost[Rcpt]
    BY <1>1, <2>1 DEF IInv, LeftAsWritten, Written, TypeOK
  <2>4. left[Rcpt] = 0 /\ decision[Rcpt] = "open"
    BY <1>1, <2>1, <2>3 DEF left, decision, Decided, TypeOK
  <2>5. left' = [left EXCEPT ![Rcpt] = 1]
    <3>1. \A r \in Rows : sends'[r] - lost'[r] = IF r = Rcpt THEN 1 ELSE sends[r] - lost[r]
      BY <1>1, <2>1, <2>2, <2>3 DEF TypeOK
    <3> QED BY <2>1, <3>1 DEF left
  <2>6. decision' = decision
    BY <2>1 DEF decision, Decided
  <2>7. PICK r \in Rows : r = Rcpt
    BY <2>1
  <2>8. left[r] = 0 /\ decision[r] = "open" /\ left' = [left EXCEPT ![r] = 1]
    BY <2>4, <2>5, <2>7
  <2>9. Promise!Leave(r)
    BY <2>6, <2>8 DEF Promise!Leave, left, decision
  <2> QED BY <2>9 DEF Promise!Next
<1>7. CASE MarkSent \/ MarkFailed
  <2>1. pc \in {"mark", "refuse"} /\ Rcpt \in Rows /\ row[Rcpt] = "pending" /\ UNCHANGED <<sends, lost>>
    BY <1>1, <1>7, HandFacts DEF MarkSent, MarkFailed, At, InHand, historyVars
  <2>2. sentOn[Rcpt] = Never /\ sends[Rcpt] - lost[Rcpt] = (IF pc = "mark" THEN 1 ELSE 0) /\ day # Never
    BY <1>1, <2>1 DEF IInv, LeftAsWritten, Written, TypeOK, Days, Never
  <2>3. /\ \A r \in Rows : r # Rcpt => row'[r] = row[r] /\ sentOn'[r] = sentOn[r]
        /\ pc = "mark" => row'[Rcpt] = "sent" /\ sentOn'[Rcpt] = day
        /\ pc = "refuse" => row'[Rcpt] = "failed" /\ sentOn'[Rcpt] = Never
    BY <1>1, <1>7, <2>1, <2>2 DEF MarkSent, MarkFailed, At, TypeOK
  <2>4. decision' \in [Rows -> Promise!Decision]
    BY DEF decision, Decided, Promise!Decision
  <2>5. left' = left
    BY <2>1 DEF left
  <2>6. ASSUME NEW r \in Rows, decision'[r] # decision[r]
        PROVE  decision[r] = "open" /\ Promise!Truthful(r, decision'[r])
    <3>1. r = Rcpt
      BY <2>3, <2>6 DEF decision, Decided
    <3>2. decision'[r] = Decided(r)' /\ decision[r] = Decided(r)
      BY DEF decision
    <3>3. decision[r] = "open" /\ decision'[r] = (IF pc = "mark" THEN "sent" ELSE "failed")
      BY <2>1, <2>2, <2>3, <3>1, <3>2 DEF Decided
    <3> QED BY <2>1, <2>2, <3>1, <3>3 DEF Promise!Truthful
  <2>7. Promise!Decide
    BY <2>4, <2>5, <2>6 DEF Promise!Decide, Promise!Decisions, left, decision
  <2> QED BY <2>7 DEF Promise!Next
<1>8. CASE DatabaseFails \/ WorkerDies
  <2>1. pc # "idle" /\ Forgets /\ events < MaxEvents /\ UNCHANGED <<row, sentOn, sends>>
    BY <1>8 DEF DatabaseFails, WorkerDies, Happens, At, tableVars
  <2>2. CASE pc # "mark"
    BY <1>2, <2>1, <2>2 DEF Forgets, At
  <2>3. CASE pc = "mark"
    <3>1. Rcpt \in Rows /\ row[Rcpt] = "pending" /\ lost' = [lost EXCEPT ![Rcpt] = @ + 1]
      BY <1>1, <2>1, <2>3, HandFacts DEF InHand, Forgets, At
    <3>2. sends[Rcpt] = lost[Rcpt] + 1
      BY <2>3, <3>1 DEF IInv, LeftAsWritten, Written
    <3>3. left' = [r \in Rows |-> IF r \in {Rcpt} THEN 0 ELSE left[r]]
      BY <1>1, <2>1, <3>1, <3>2 DEF left, TypeOK
    <3>4. decision' = decision /\ decision[Rcpt] = "open"
      BY <2>1, <3>1 DEF decision, Decided
    <3>5. MaxEvents > 0
      BY <1>1, <2>1, ConstantsAssumption DEF TypeOK
    <3>6. decision \in [Rows -> Promise!Decision]
      BY DEF decision, Decided, Promise!Decision
    <3>7. Promise!Forget
      BY <3>1, <3>3, <3>4, <3>5, <3>6 DEF Promise!Forget, Promise!Decisions, left, decision
    <3> QED BY <3>7 DEF Promise!Next
  <2> QED BY <2>2, <2>3
<1>9. CASE \/ \E c \in Campaigns : Resume(c) \/ Stop(c)
           \/ \E p \in Contacts : Unsubscribe(p) \/ ReadBounce(Address[p])
           \/ SyncFails \/ Tick \/ UNCHANGED vars
  BY <1>2, <1>9 DEF Resume, Stop, Unsubscribe, ReadBounce, SyncFails, Tick, vars, tableVars, historyVars
<1>10. CASE \/ \E j \in Jobs : Take(j)
            \/ ReadRecipient \/ SignInFails \/ PauseForMailbox \/ Busy \/ Refused \/ LookAtCampaign
            \/ PauseFailing \/ Close
  BY <1>2, <1>10 DEF Take, ReadRecipient, SignInFails, PauseForMailbox, Busy, Refused, LookAtCampaign,
       PauseFailing, Close, tableVars, historyVars
<1> QED BY <1>3, <1>4, <1>5, <1>6, <1>7, <1>8, <1>9, <1>10 DEF Next, Works

(* For any campaigns, caps and faults: an email leaves at most once, leaves *)
(* before its row is decided and the row says truly whether it did, as far *)
(* as what left was written down.                                          *)
THEOREM EmailsAreOnceOnly == Spec => ImplementsOnceOnly
<1>1. Init => Promise!Init
  BY PromiseInit
<1>2. IInv /\ [Next]_vars => [Promise!Next]_(Promise!vars)
  BY PromiseStep
<1> QED BY <1>1, <1>2, Inductive, PTL DEF Spec, ImplementsOnceOnly, Promise!Spec
=============================================================================
