---------------------- MODULE DeliveryReceiptsProofs ----------------------
(***************************************************************************)
(* For any messages, deliveries and number of jobs, however often the      *)
(* worker crashes: the typing of the model, that the reports of a message  *)
(* add up to its status, that no report is lost track of, and that an echo *)
(* is shown once.                                                          *)
(*                                                                         *)
(* A row is safe because its update reads and writes at once.  A test's    *)
(* note is not, and its sum needs more: as long as one job only has read   *)
(* it, what the job is about to write is still ahead of it.                *)
(*                                                                         *)
(* The account of the reports is kept job by job: a report that was ahead  *)
(* of a job is settled when the job goes past it.  For an echo that takes  *)
(* more: what its job still has to do shows that it is on record, and that *)
(* no other job is at it, which is also why it is told once.               *)
(***************************************************************************)
EXTENDS DeliveryReceipts, TLAPS

(* What a job at a report may rely on. *)
Working ==
  \A j \in Slots :
    /\ pc[j] \in {"update", "note", "write"} => Item(j).status \in Reported
    /\ pc[j] \in {"note", "write"} => Kind[Here(j)] = "test"
    /\ pc[j] = "write" => /\ stage[Here(j)] = "recorded"
                          /\ Here(j) \notin overlap => Advances(status[Here(j)], Says(j))

(* Two jobs that hold one note have made it an overlap. *)
OneHolder ==
  \A j, k \in Slots : /\ pc[j] = "write" /\ pc[k] = "write" /\ j # k
                      /\ Here(j) = Here(k)
                      => Here(j) \in overlap

(* Nothing is applied to what is not on record. *)
BlankUntilRecorded == \A m \in Messages : stage[m] # "recorded" => applied[m] = {}

Sums == \A m \in Messages : stage[m] = "recorded" /\ (Kind[m] = "test" => m \notin overlap) => AddsUp(m)

IInv == TypeOK /\ Working /\ OneHolder /\ BlankUntilRecorded /\ Sums

(* An echo's job is alone with it from the record to the last word, which  *)
(* comes once, and after the conversation is its sender's.                 *)
Mirroring(j) == pc[j] \in {"custody", "publish"}

EchoWork ==
  /\ \A j \in Slots : pc[j] = "echo" \/ Mirroring(j) => Item(j).status = "echo"
  /\ \A j \in Slots : Mirroring(j) => stage[Here(j)] = "recorded" /\ published[Here(j)] = 0
  /\ \A j \in Slots : pc[j] = "publish" => Here(j) \in taken
  /\ \A j, k \in Slots : Mirroring(j) /\ Mirroring(k) /\ Here(j) = Here(k) => j = k
  /\ \A m \in Messages : stage[m] # "recorded" => published[m] = 0

(* Report i of delivery d is dealt with; or job j is still to come to it.  *)
Settled(d, i) ==
  LET report == content[d][i] IN
  \/ report.status = "echo" /\ stage[report.of] = "recorded"
  \/ Mapped(report.of, report.status) \in applied[report.of]
  \/ report \in early \cup swallowed

Ahead(j, i) == pc[j] = "waiting" \/ (Active(j) /\ at[j] <= i)

IInv2 == IInv /\ EchoWork /\ EveryReportAccounted /\ EchoesAreMirrored

Statuses == Reported \cup {None, "queued", "accepted"}
Phases   == {"free", "waiting", "update", "note", "write", "echo", "custody", "publish",
             "done", "failed", "forgotten"}

-----------------------------------------------------------------------------
(* The ladder: what has added up so far still does after one more report,  *)
(* whether or not the report is ahead of it.                               *)
LEMMA OneMoreReport ==
  ASSUME NEW first \in {"queued", "sent", "accepted", "delivered"}, NEW said \in SUBSET Reported,
         NEW s, NEW r \in Reported, SumOf(first, said, s)
  PROVE  SumOf(first, said \cup {r}, IF Advances(s, r) THEN r ELSE s)
  BY DEF SumOf, Advances, Rank, Reported

LEMMA FirstAddsUp ==
  ASSUME NEW m \in Messages PROVE SumOf(FirstStatus(m), {}, FirstStatus(m))
  BY ConstantsAssumption DEF SumOf, FirstStatus, Rank, Kinds

LEMMA FirstIsOne ==
  ASSUME NEW m \in Messages PROVE FirstStatus(m) \in {"queued", "sent", "accepted", "delivered"}
  BY ConstantsAssumption DEF FirstStatus, Kinds

(* What a job is at is a report of its delivery. *)
LEMMA ItemFacts ==
  ASSUME TypeOK, NEW j \in Slots, pc[j] # "free"
  PROVE  /\ job[j] \in Deliveries
         /\ content[job[j]] \in Seq(Report)
         /\ Len(content[job[j]]) \in Nat \ {0}
         /\ at[j] \in 1..Len(content[job[j]])
         /\ Item(j) \in Report
         /\ Here(j) \in Messages
         /\ Item(j).status \in Reported => /\ Says(j) \in Reported
                                           /\ Kind[Here(j)] = "recipient" => Says(j) # "read"
         /\ Kind[Here(j)] = "test" => Says(j) = Item(j).status
<1>1. job[j] \in Deliveries /\ at[j] \in 1..Len(content[job[j]])
  BY DEF TypeOK
<1>2. content[job[j]] \in Seq(Report) /\ Len(content[job[j]]) > 0
  BY <1>1, ConstantsAssumption DEF TypeOK
<1>3. Item(j) \in Report
  BY <1>1, <1>2 DEF Item
<1> QED BY <1>1, <1>2, <1>3 DEF Here, Says, Mapped, Report, Reported

(* GoOn moves this job only, to its next report or to its end. *)
LEMMA GoOnFacts ==
  ASSUME TypeOK, NEW j \in Slots, pc[j] # "free", GoOn(j)
  PROVE  /\ pc' = [pc EXCEPT ![j] = pc'[j]]
         /\ at' = [at EXCEPT ![j] = at'[j]]
         /\ pc'[j] \in {"update", "echo", "done"}
         /\ at'[j] \in 1..Len(content[job[j]])
         /\ pc'[j] = "update" => content[job[j]][at'[j]].status \in Reported
         /\ pc'[j] = "echo" => content[job[j]][at'[j]].status = "echo"
<1>1. /\ content[job[j]] \in Seq(Report)
      /\ at[j] \in 1..Len(content[job[j]])
      /\ Len(content[job[j]]) \in Nat
      /\ pc \in [Slots -> Phases] /\ at \in [Slots -> Nat \ {0}]
  BY ItemFacts DEF TypeOK, Phases
<1>2. CASE at[j] < Len(content[job[j]])
  <2>1. content[job[j]][at[j] + 1] \in Report
    BY <1>1, <1>2
  <2> QED BY <1>1, <1>2, <2>1 DEF GoOn, PhaseOf, Report
<1>3. CASE ~(at[j] < Len(content[job[j]]))
  BY <1>1, <1>3 DEF GoOn, GoTo
<1> QED BY <1>2, <1>3

LEMMA GoToFacts ==
  ASSUME TypeOK, NEW j \in Slots, pc[j] # "free", NEW p \in Phases, GoTo(j, p)
  PROVE  /\ pc' = [pc EXCEPT ![j] = pc'[j]] /\ pc'[j] = p
         /\ at' = [at EXCEPT ![j] = at'[j]] /\ at'[j] = at[j]
         /\ at'[j] \in 1..Len(content[job[j]])
<1>1. pc \in [Slots -> Phases] /\ at \in [Slots -> Nat \ {0}]
  BY DEF TypeOK, Phases
<1> QED BY <1>1, ItemFacts DEF GoTo

(* A step of one job leaves what the others are at as it is. *)
LEMMA OthersStay ==
  ASSUME TypeOK, NEW j \in Slots, content' = content, job' = job,
         at' = [at EXCEPT ![j] = at'[j]]
  PROVE  /\ \A k \in Slots : k # j => Item(k)' = Item(k) /\ Here(k)' = Here(k) /\ Says(k)' = Says(k)
         /\ at'[j] = at[j] => Item(j)' = Item(j) /\ Here(j)' = Here(j) /\ Says(j)' = Says(j)
         /\ Item(j)' = content[job[j]][at'[j]]
  BY DEF TypeOK, Item, Here, Says, Mapped

(* How a step of one job keeps what all of them rely on, unless it begins  *)
(* to hold a note.                                                         *)
LEMMA JobMoves ==
  ASSUME IInv, NEW j \in Slots, pc[j] # "free", content' = content, job' = job,
         pc' = [pc EXCEPT ![j] = pc'[j]], pc'[j] \in Phases \ {"free", "write"},
         at' = [at EXCEPT ![j] = at'[j]],
         pc'[j] = "update" => content[job[j]][at'[j]].status \in Reported,
         pc'[j] = "note" => at'[j] = at[j] /\ Item(j).status \in Reported /\ Kind[Here(j)] = "test",
         overlap \subseteq overlap',
         \A k \in Slots : k # j /\ pc[k] = "write" =>
           /\ stage'[Here(k)] = "recorded"
           /\ Here(k) \in overlap \/ status'[Here(k)] = status[Here(k)]
  PROVE  Working' /\ OneHolder'
<1>1. TypeOK /\ Working /\ OneHolder /\ pc \in [Slots -> Phases]
  BY DEF IInv, TypeOK, Phases
<1>2. /\ \A k \in Slots : k # j => Item(k)' = Item(k) /\ Here(k)' = Here(k) /\ Says(k)' = Says(k)
      /\ at'[j] = at[j] => Item(j)' = Item(j) /\ Here(j)' = Here(j)
      /\ Item(j)' = content[job[j]][at'[j]]
  BY <1>1, OthersStay
<1>3. \A k \in Slots : k # j => pc'[k] = pc[k]
  BY <1>1
<1>4. Working'
  BY <1>1, <1>2, <1>3 DEF Working
<1>5. OneHolder'
  BY <1>1, <1>2, <1>3 DEF OneHolder
<1> QED BY <1>4, <1>5

(* How a step that touches no job keeps what they rely on. *)
LEMMA JobsStay ==
  ASSUME IInv, content' = content, job' = job, pc' = pc, at' = at, overlap' = overlap,
         \A j \in Slots : pc[j] = "write" => stage'[Here(j)] = stage[Here(j)] /\ status'[Here(j)] = status[Here(j)]
  PROVE  Working' /\ OneHolder'
<1>1. \A k \in Slots : Item(k)' = Item(k) /\ Here(k)' = Here(k) /\ Says(k)' = Says(k)
  BY DEF Item, Here, Says, Mapped
<1> QED BY <1>1 DEF IInv, Working, OneHolder

-----------------------------------------------------------------------------
LEMMA InitIInv == Init => IInv
<1> SUFFICES ASSUME Init PROVE IInv
  OBVIOUS
<1>1. TypeOK
  BY ConstantsAssumption DEF Init, TypeOK, Reported, Report, None
<1>2. Working /\ OneHolder /\ BlankUntilRecorded /\ Sums
  BY DEF Init, Working, OneHolder, BlankUntilRecorded, Sums
<1> QED BY <1>1, <1>2 DEF IInv

(* Every step of a job stays at a report of its delivery, in a phase, and  *)
(* leaves the other jobs alone.                                            *)
LEMMA JobFrame ==
  ASSUME TypeOK, NEW j \in Slots, JobNext(j)
  PROVE  /\ pc[j] \notin {"free", "done", "failed", "forgotten"}
         /\ pc' \in [Slots -> Phases] /\ at' \in [Slots -> Nat \ {0}]
         /\ pc' = [pc EXCEPT ![j] = pc'[j]] /\ pc'[j] \notin {"free", "forgotten"}
         /\ at' = [at EXCEPT ![j] = at'[j]] /\ at'[j] \in 1..Len(content[job[j]])
         /\ content' = content /\ job' = job
<1>a. pc \in [Slots -> Phases] /\ at \in [Slots -> Nat \ {0}]
  BY DEF TypeOK, Phases
<1>b. pc[j] \notin {"free", "done", "failed", "forgotten"}
  BY DEF JobNext, Take, Update, ReadNote, WriteNote, RecordEcho, TakeCustody, Publish, LookupFails,
         Swallow, EchoFails
<1>c. at[j] \in 1..Len(content[job[j]]) /\ Len(content[job[j]]) \in Nat \ {0}
  BY <1>b, ItemFacts
<1>1. CASE Take(j)
  BY <1>1, <1>a, <1>b, <1>c DEF Take, PhaseOf, Phases, rowVars, history
<1>2. CASE GoOn(j) /\ content' = content /\ job' = job
  <2>1. /\ pc' = [pc EXCEPT ![j] = pc'[j]] /\ at' = [at EXCEPT ![j] = at'[j]]
        /\ pc'[j] \in {"update", "echo", "done"} /\ at'[j] \in 1..Len(content[job[j]])
    BY <1>2, <1>b, GoOnFacts
  <2>2. pc'[j] \in Phases \ {"free", "forgotten"} /\ at'[j] \in Nat \ {0}
    BY <2>1 DEF Phases
  <2>3. \A a : pc' = [pc EXCEPT ![j] = a] /\ a \in Phases => pc' \in [Slots -> Phases]
    BY <1>a
  <2>4. \A a : at' = [at EXCEPT ![j] = a] /\ a \in Nat \ {0} => at' \in [Slots -> Nat \ {0}]
    BY <1>a
  <2> QED BY <1>2, <1>b, <2>1, <2>2, <2>3, <2>4
<1>3. CASE /\ \E p \in Phases \ {"free", "forgotten"} : GoTo(j, p)
           /\ content' = content /\ job' = job
  <2>1. PICK p \in Phases \ {"free", "forgotten"} : pc' = [pc EXCEPT ![j] = p] /\ at' = at
    BY <1>3 DEF GoTo
  <2> QED BY <1>3, <1>a, <1>b, <1>c, <2>1
<1>4. CASE Update(j)
  BY <1>2, <1>3, <1>4 DEF Update, Phases
<1>5. CASE ReadNote(j)
  BY <1>2, <1>3, <1>5 DEF ReadNote, Phases
<1>6. CASE RecordEcho(j) \/ TakeCustody(j)
  BY <1>2, <1>3, <1>6 DEF RecordEcho, TakeCustody, Phases
<1>7. CASE WriteNote(j) \/ Publish(j) \/ Swallow(j) \/ EchoFails(j)
  BY <1>2, <1>7 DEF WriteNote, Publish, Swallow, EchoFails
<1>8. CASE LookupFails(j)
  BY <1>3, <1>8 DEF LookupFails, Phases
<1> QED BY <1>1, <1>4, <1>5, <1>6, <1>7, <1>8 DEF JobNext

(* The typing, action by action. *)
LEMMA StepType == TypeOK /\ Working /\ [Next]_vars => TypeOK'
<1> SUFFICES ASSUME TypeOK, Working, [Next]_vars PROVE TypeOK'
  OBVIOUS
<1> USE ConstantsAssumption
<1>0. /\ pc \in [Slots -> Phases] /\ at \in [Slots -> Nat \ {0}] /\ None \notin Reported
      /\ status \in [Messages -> Statuses] /\ applied \in [Messages -> SUBSET Reported]
      /\ stage \in [Messages -> {"accepted", "recorded", "lost"}] /\ troubles \in 0..MaxTroubles
      /\ tries \in [Slots -> 0..Attempts] /\ job \in [Slots -> Deliveries \cup {None}]
      /\ \A m \in Messages : Kind[m] = "recipient" => status[m] # "read"
  BY DEF TypeOK, Phases, Statuses, None, Reported
<1>a. \A k \in Slots : /\ pc[k] # "free" => job[k] \in Deliveries
                       /\ job[k] \in Deliveries => at[k] \in 1..Len(content[job[k]])
                       /\ pc[k] = "free" => at[k] = 1
                       /\ pc[k] \notin {"done", "failed", "forgotten"} => tries[k] < Attempts
  BY DEF TypeOK
<1>f. \A m \in Messages : FirstStatus(m) \in Statuses /\ FirstStatus(m) # "read"
  BY FirstIsOne DEF Statuses, Reported
<1>1. ASSUME NEW m \in Messages, Commit(m) PROVE TypeOK'
  BY <1>1, <1>f DEF TypeOK, Commit, AwaitsRecord, queueVars, history, Statuses
<1>2. ASSUME NEW m \in Messages, RollBack(m) PROVE TypeOK'
  BY <1>2 DEF TypeOK, RollBack, AwaitsRecord, queueVars, history
<1>3. ASSUME NEW d \in Deliveries, Post(d) PROVE TypeOK'
  <2>1. CASE Duplicate(d)
    BY <1>3, <2>1 DEF TypeOK, Post, rowVars
  <2>2. CASE ~Duplicate(d)
    <3>1. PICK j \in Slots : pc[j] = "free" /\ job' = [job EXCEPT ![j] = d] /\ pc' = [pc EXCEPT ![j] = "waiting"]
      BY <1>3, <2>2 DEF Post
    <3>2. /\ content' = content /\ at' = at
          /\ UNCHANGED <<rowVars, tries, applied, early, swallowed, overlap, published, cut, troubles, dropped>>
      BY <1>3, <2>2 DEF Post
    <3>3. Len(content[d]) \in Nat \ {0}
      BY DEF TypeOK
    <3>4. /\ pc' \in [Slots -> Phases] /\ job' \in [Slots -> Deliveries \cup {None}]
          /\ \A k \in Slots : /\ pc'[k] # "free" => job'[k] \in Deliveries
                              /\ job'[k] \in Deliveries => at'[k] \in 1..Len(content'[job'[k]])
                              /\ pc'[k] = "free" => at'[k] = 1
                              /\ pc'[k] \notin {"done", "failed", "forgotten"} => tries'[k] < Attempts
      BY <3>1, <3>2, <3>3, <1>0, <1>a DEF Phases
    <3> QED BY <3>2, <3>4 DEF TypeOK, rowVars, Phases
  <2> QED BY <2>1, <2>2
<1>4. ASSUME NEW j \in Slots, Forget(j) PROVE TypeOK'
  BY <1>4 DEF TypeOK, Forget, rowVars, history
<1>5. ASSUME NEW j \in Slots, JobNext(j) PROVE TypeOK'
  <2>0. pc[j] # "free"
    BY <1>5, JobFrame
  <2> /\ job[j] \in Deliveries /\ content[job[j]] \in Seq(Report)
      /\ Len(content[job[j]]) \in Nat \ {0}
      /\ Item(j) \in Report /\ Here(j) \in Messages
    BY <2>0, ItemFacts
  <2>1. /\ pc' \in [Slots -> Phases] /\ at' \in [Slots -> Nat \ {0}]
        /\ pc' = [pc EXCEPT ![j] = pc'[j]] /\ pc'[j] # "free"
        /\ at' = [at EXCEPT ![j] = at'[j]] /\ at'[j] \in 1..Len(content[job[j]])
        /\ content' = content /\ job' = job
    BY <1>5, JobFrame DEF Phases
  <2>2. \A k \in Slots : /\ pc'[k] # "free" => job'[k] \in Deliveries
                         /\ job'[k] \in Deliveries => at'[k] \in 1..Len(content'[job'[k]])
                         /\ pc'[k] = "free" => at'[k] = 1
    BY <2>1, <1>0, <1>a
  <2>7. \A k \in Slots : pc'[k] \notin {"done", "failed", "forgotten"} => tries'[k] < Attempts
    <3>1. \A k \in Slots : k # j => pc'[k] = pc[k] /\ tries'[k] = tries[k]
      BY <1>5, <2>1, <1>0 DEF JobNext, Take, Update, ReadNote, WriteNote, RecordEcho, TakeCustody, Publish,
                              LookupFails, Swallow, EchoFails, history
    <3>2. CASE LookupFails(j)
      BY <1>0, <1>a, <3>1, <3>2 DEF LookupFails, GoTo
    <3>3. CASE ~LookupFails(j)
      <4>1. tries' = tries /\ pc[j] \notin {"done", "failed", "forgotten"}
        BY <1>5, <3>3 DEF JobNext, Take, Update, ReadNote, WriteNote, RecordEcho, TakeCustody, Publish, Swallow,
                          EchoFails, history
      <4> QED BY <3>1, <4>1, <1>a
    <3> QED BY <3>2, <3>3
  <2>3. /\ stage' \in [Messages -> {"accepted", "recorded", "lost"}]
        /\ status' \in [Messages -> Statuses]
        /\ \A m \in Messages : Kind[m] = "recipient" => status'[m] # "read"
        /\ applied' \in [Messages -> SUBSET Reported]
    <3>1. CASE Take(j) \/ TakeCustody(j) \/ Publish(j) \/ LookupFails(j) \/ Swallow(j) \/ EchoFails(j)
      BY <3>1, <1>0 DEF Take, TakeCustody, Publish, LookupFails, Swallow, EchoFails, rowVars, history, TypeOK
    <3>2. CASE Update(j) \/ ReadNote(j) \/ WriteNote(j)
      <4>1. Says(j) \in Reported /\ (Kind[Here(j)] = "recipient" => Says(j) # "read")
        BY <3>2, <2>0, ItemFacts DEF Update, ReadNote, WriteNote, Working
      <4>a. applied[Here(j)] \cup {Says(j)} \in SUBSET Reported /\ Says(j) \in Statuses
        BY <4>1, <1>0 DEF Statuses
      <4>2. CASE Update(j)
        <5>1. applied' = applied \/ applied' = [applied EXCEPT ![Here(j)] = applied[Here(j)] \cup {Says(j)}]
          BY <4>2 DEF Update
        <5>2. status' = status \/ status' = [status EXCEPT ![Here(j)] = Says(j)]
          BY <4>2 DEF Update
        <5>3. stage' = stage
          BY <4>2 DEF Update
        <5> QED BY <5>1, <5>2, <5>3, <4>1, <4>a, <1>0, ZenonT(60)
      <4>3. CASE ReadNote(j)
        <5>1. applied' = applied \/ applied' = [applied EXCEPT ![Here(j)] = applied[Here(j)] \cup {Says(j)}]
          BY <4>3 DEF ReadNote
        <5>2. status' = status /\ stage' = stage
          BY <4>3 DEF ReadNote, rowVars
        <5> QED BY <5>1, <5>2, <4>a, <1>0
      <4>4. CASE WriteNote(j)
        BY <4>1, <4>4, <1>0 DEF WriteNote, Statuses
      <4> QED BY <3>2, <4>2, <4>3, <4>4
    <3>3. CASE RecordEcho(j)
      BY <3>3, <1>0, <1>f, ZenonT(60) DEF RecordEcho, history
    <3> QED BY <1>5, <3>1, <3>2, <3>3 DEF JobNext
  <2>4. taken' \subseteq Messages /\ tries' \in [Slots -> 0..Attempts] /\ troubles' \in 0..MaxTroubles
    <3>1. CASE Take(j) \/ Update(j) \/ ReadNote(j) \/ WriteNote(j) \/ RecordEcho(j) \/ Publish(j)
      BY <3>1 DEF Take, Update, ReadNote, WriteNote, RecordEcho, Publish, rowVars, TypeOK
    <3>2. CASE TakeCustody(j)
      BY <3>2 DEF TakeCustody, TypeOK
    <3>3. CASE LookupFails(j)
      <4>1. taken' \subseteq Messages /\ troubles' \in 0..MaxTroubles
        BY <3>3 DEF LookupFails, rowVars, TypeOK
      <4>2. tries[j] < Attempts
        BY <3>3, <1>a DEF LookupFails
      <4>3. tries' = [tries EXCEPT ![j] = tries[j] + 1]
        BY <3>3 DEF LookupFails
      <4> QED BY <4>1, <4>2, <4>3, <1>0
    <3>4. CASE Swallow(j) \/ EchoFails(j)
      BY <3>4 DEF Swallow, EchoFails, rowVars, TypeOK
    <3> QED BY <1>5, <3>1, <3>2, <3>3, <3>4 DEF JobNext
  <2>5. /\ early' \subseteq Report /\ swallowed' \subseteq Report /\ dropped' \subseteq Deliveries
        /\ overlap' \subseteq Messages /\ cut' \subseteq Messages /\ published' \in [Messages -> Nat]
    <3>1. CASE Take(j) \/ RecordEcho(j) \/ TakeCustody(j) \/ WriteNote(j)
      BY <3>1 DEF Take, RecordEcho, TakeCustody, WriteNote, history, TypeOK
    <3>2. CASE Update(j)
      BY <3>2 DEF Update, TypeOK
    <3>3. CASE ReadNote(j)
      BY <3>3 DEF ReadNote, TypeOK
    <3>4. CASE Publish(j)
      BY <3>4 DEF Publish, TypeOK
    <3>5. CASE Swallow(j) \/ EchoFails(j)
      BY <3>5 DEF Swallow, EchoFails, TypeOK
    <3>6. CASE LookupFails(j)
      <4>1. {content[job[j]][i] : i \in 1..Len(content[job[j]])} \subseteq Report
        OBVIOUS
      <4>2. swallowed' \subseteq Report
        BY <3>6, <4>1 DEF LookupFails, TypeOK
      <4> QED BY <3>6, <4>2 DEF LookupFails, TypeOK
    <3> QED BY <1>5, <3>1, <3>2, <3>3, <3>4, <3>5, <3>6 DEF JobNext
  <2>6. content' \in Contents /\ job' \in [Slots -> Deliveries \cup {None}]
    BY <2>1 DEF TypeOK
  <2> QED BY <2>1, <2>2, <2>3, <2>4, <2>5, <2>6, <2>7 DEF TypeOK, Phases, Statuses
<1>6. CASE Crash
  <2>1. pc' \in [Slots -> Phases] /\ \A k \in Slots : pc'[k] # "free" => pc[k] # "free"
    BY <1>0, <1>6 DEF Crash, Active, Phases
  <2>2. cut' \subseteq Messages
    BY <1>6 DEF Crash, TypeOK
  <2>3. troubles' \in 0..MaxTroubles
    BY <1>6 DEF Crash, TypeOK
  <2>4. UNCHANGED <<content, rowVars, job, at, tries, applied, early, swallowed, dropped, overlap, published>>
    BY <1>6 DEF Crash
  <2>5. \A k \in Slots : /\ pc'[k] = "free" => pc[k] = "free"
                         /\ pc'[k] \notin {"done", "failed", "forgotten"} => pc[k] \notin {"done", "failed", "forgotten"}
    BY <1>0, <1>6 DEF Crash, Active, Phases
  <2> QED BY <2>1, <2>2, <2>3, <2>4, <2>5 DEF TypeOK, rowVars, Phases
<1>7. CASE UNCHANGED vars
  BY <1>7 DEF TypeOK, vars, rowVars, queueVars, history
<1> QED BY <1>1, <1>2, <1>3, <1>4, <1>5, <1>6, <1>7 DEF Next

-----------------------------------------------------------------------------
(* The rest of the invariant. *)
LEMMA StepIInv == IInv /\ [Next]_vars => IInv'
<1> SUFFICES ASSUME IInv, [Next]_vars PROVE IInv'
  OBVIOUS
<1> DEFINE Rest == Working /\ OneHolder /\ BlankUntilRecorded /\ Sums
<1> USE ConstantsAssumption
<1>0. /\ TypeOK /\ Working /\ OneHolder /\ BlankUntilRecorded /\ Sums
      /\ pc \in [Slots -> Phases] /\ at \in [Slots -> Nat \ {0}]
      /\ stage \in [Messages -> {"accepted", "recorded", "lost"}]
      /\ status \in [Messages -> Statuses] /\ applied \in [Messages -> SUBSET Reported]
  BY DEF IInv, TypeOK, Phases, Statuses
<1>t. TypeOK'
  BY <1>0, StepType
<1>1. ASSUME NEW m \in Messages, Commit(m) PROVE Rest'
  <2>1. \A j \in Slots : pc[j] = "write" => Here(j) # m
    BY <1>0, <1>1 DEF Working, Commit, AwaitsRecord
  <2>2. Working' /\ OneHolder'
    BY <1>0, <1>1, <2>1, JobsStay, ItemFacts DEF Commit, AwaitsRecord, queueVars, history
  <2>3. BlankUntilRecorded'
    BY <1>0, <1>1 DEF BlankUntilRecorded, Commit, AwaitsRecord, queueVars, history
  <2>4. applied[m] = {} /\ SumOf(FirstStatus(m), {}, FirstStatus(m))
    BY <1>0, <1>1, FirstAddsUp DEF BlankUntilRecorded, Commit, AwaitsRecord
  <2>5. Sums'
    BY <1>0, <1>1, <2>4 DEF Sums, AddsUp, Commit, AwaitsRecord, queueVars, history
  <2> QED BY <2>2, <2>3, <2>5
<1>2. ASSUME NEW m \in Messages, RollBack(m) PROVE Rest'
  <2>1. \A j \in Slots : pc[j] = "write" => Here(j) # m
    BY <1>0, <1>2 DEF Working, RollBack, AwaitsRecord
  <2>2. Working' /\ OneHolder'
    BY <1>0, <1>2, <2>1, JobsStay, ItemFacts DEF RollBack, AwaitsRecord, queueVars, history
  <2>3. BlankUntilRecorded' /\ Sums'
    BY <1>0, <1>2 DEF BlankUntilRecorded, Sums, AddsUp, RollBack, AwaitsRecord, queueVars, history
  <2> QED BY <2>2, <2>3
<1>3. ASSUME NEW d \in Deliveries, Post(d) PROVE Rest'
  <2>1. /\ content' = content /\ at' = at /\ overlap' = overlap
        /\ stage' = stage /\ status' = status /\ applied' = applied
    BY <1>3 DEF Post, rowVars
  <2>2. \A k \in Slots : pc'[k] \in {"update", "note", "write"} => pc'[k] = pc[k] /\ job'[k] = job[k]
    <3>1. CASE Duplicate(d)
      BY <1>3, <3>1 DEF Post
    <3>2. CASE ~Duplicate(d)
      <4>1. PICK j \in Slots : pc[j] = "free" /\ job' = [job EXCEPT ![j] = d] /\ pc' = [pc EXCEPT ![j] = "waiting"]
        BY <1>3, <3>2 DEF Post
      <4> QED BY <4>1, <1>0 DEF TypeOK
    <3> QED BY <3>1, <3>2
  <2>3. \A k \in Slots : pc'[k] \in {"update", "note", "write"} =>
           pc'[k] = pc[k] /\ Item(k)' = Item(k) /\ Here(k)' = Here(k) /\ Says(k)' = Says(k)
    BY <2>1, <2>2 DEF Item, Here, Says, Mapped
  <2>4. Working' /\ OneHolder'
    BY <1>0, <2>1, <2>3 DEF Working, OneHolder
  <2> QED BY <1>0, <2>1, <2>4 DEF BlankUntilRecorded, Sums, AddsUp
<1>4. ASSUME NEW j \in Slots, Forget(j) PROVE Rest'
  <2>1. /\ content' = content /\ at' = at /\ overlap' = overlap /\ job' = job
        /\ stage' = stage /\ status' = status /\ applied' = applied
        /\ \A k \in Slots : pc'[k] \in {"update", "note", "write"} => pc'[k] = pc[k]
    BY <1>0, <1>4 DEF Forget, rowVars, history
  <2> QED BY <1>0, <2>1, SMTT(30) DEF Working, OneHolder, BlankUntilRecorded, Sums, AddsUp, Item, Here, Says, Mapped
<1>5. CASE Crash
  <2>1. /\ content' = content /\ at' = at /\ overlap' = overlap /\ job' = job
        /\ stage' = stage /\ status' = status /\ applied' = applied
        /\ \A k \in Slots : pc'[k] \notin {"update", "note", "write"}
    BY <1>0, <1>5 DEF Crash, Active, rowVars, Phases
  <2>2. Working' /\ OneHolder'
    BY <2>1 DEF Working, OneHolder
  <2>3. BlankUntilRecorded' /\ Sums'
    BY <1>0, <2>1 DEF BlankUntilRecorded, Sums, AddsUp
  <2> QED BY <1>t, <2>2, <2>3 DEF IInv
<1>6. CASE UNCHANGED vars
  <2>1. Working' /\ OneHolder'
    BY <1>6, JobsStay DEF vars, rowVars, queueVars, history
  <2>2. stage' = stage /\ status' = status /\ applied' = applied /\ overlap' = overlap
    BY <1>6 DEF vars, rowVars, history
  <2>3. BlankUntilRecorded' /\ Sums'
    BY <1>0, <2>2 DEF BlankUntilRecorded, Sums, AddsUp
  <2> QED BY <1>t, <2>1, <2>3 DEF IInv
<1>7. ASSUME NEW j \in Slots, JobNext(j) PROVE Rest'
  <2>0. pc[j] # "free"
    BY <1>7 DEF JobNext, Take, Update, ReadNote, WriteNote, RecordEcho, TakeCustody, Publish, LookupFails,
                Swallow, EchoFails
  <2>f. /\ Here(j) \in Messages /\ Item(j) \in Report /\ at[j] \in 1..Len(content[job[j]])
        /\ content[job[j]] \in Seq(Report) /\ Len(content[job[j]]) \in Nat \ {0}
    BY <1>0, <2>0, ItemFacts
  <2>g. \A k \in Slots : pc[k] = "write" => Here(k) \in Messages /\ stage[Here(k)] = "recorded" /\ Kind[Here(k)] = "test"
    BY <1>0, ItemFacts DEF Working
  (* Steps that leave what is on record alone. *)
  <2>1. CASE Take(j) \/ TakeCustody(j) \/ Publish(j) \/ EchoFails(j) \/ LookupFails(j) \/ Swallow(j)
    <3>1. /\ content' = content /\ job' = job /\ stage' = stage /\ status' = status
          /\ applied' = applied /\ overlap' = overlap
      BY <2>1 DEF Take, TakeCustody, Publish, EchoFails, LookupFails, Swallow, rowVars, history
    <3>2. /\ pc' = [pc EXCEPT ![j] = pc'[j]] /\ pc'[j] \in Phases \ {"free", "write", "note"}
          /\ at' = [at EXCEPT ![j] = at'[j]]
          /\ pc'[j] = "update" => content[job[j]][at'[j]].status \in Reported
      <4>1. CASE Take(j)
        <5>1. content[job[j]][1] \in Report
          BY <2>f
        <5> QED BY <4>1, <5>1, <1>0 DEF Take, PhaseOf, Phases, Report
      <4>2. CASE Publish(j) \/ EchoFails(j) \/ Swallow(j)
        BY <4>2, <1>0, <2>0, GoOnFacts DEF Publish, EchoFails, Swallow, Phases
      <4>3. CASE TakeCustody(j)
        BY <4>3, <1>0 DEF TakeCustody, GoTo, Phases
      <4>4. CASE LookupFails(j)
        BY <4>4, <1>0 DEF LookupFails, GoTo, Phases
      <4> QED BY <2>1, <4>1, <4>2, <4>3, <4>4
    <3>3. Working' /\ OneHolder'
      BY <2>0, <2>g, <3>1, <3>2, JobMoves
    <3> QED BY <1>0, <3>1, <3>3 DEF BlankUntilRecorded, Sums, AddsUp
  (* A row reads and writes at once. *)
  <2>2. CASE Update(j)
    <3>1. /\ pc[j] = "update" /\ Item(j).status \in Reported /\ Says(j) \in Reported
          /\ content' = content /\ job' = job /\ stage' = stage /\ overlap' = overlap
      BY <2>0, <2>2, <1>0, ItemFacts DEF Update, Working
    <3>2. CASE HasRow(Here(j))
      <4>1. /\ stage[Here(j)] = "recorded" /\ Kind[Here(j)] # "test" /\ GoOn(j)
            /\ status' = IF Advances(status[Here(j)], Says(j)) THEN [status EXCEPT ![Here(j)] = Says(j)] ELSE status
            /\ applied' = [applied EXCEPT ![Here(j)] = applied[Here(j)] \cup {Says(j)}]
        BY <2>2, <3>2 DEF Update, HasRow
      <4>2. Working' /\ OneHolder'
        BY <1>0, <2>0, <2>g, <3>1, <4>1, GoOnFacts, JobMoves DEF Phases
      <4>3. SumOf(FirstStatus(Here(j)), applied'[Here(j)], status'[Here(j)])
        <5>1. SumOf(FirstStatus(Here(j)), applied[Here(j)], status[Here(j)])
          BY <1>0, <2>f, <4>1 DEF Sums, AddsUp
        <5>2. /\ applied'[Here(j)] = applied[Here(j)] \cup {Says(j)}
              /\ status'[Here(j)] = IF Advances(status[Here(j)], Says(j)) THEN Says(j) ELSE status[Here(j)]
          BY <1>0, <2>f, <4>1
        <5>3. SumOf(FirstStatus(Here(j)), applied[Here(j)] \cup {Says(j)},
                    IF Advances(status[Here(j)], Says(j)) THEN Says(j) ELSE status[Here(j)])
          BY <1>0, <2>f, <3>1, <5>1, FirstIsOne, OneMoreReport
        <5> QED BY <5>2, <5>3
      <4>4. Sums'
        BY <1>0, <2>f, <3>1, <4>1, <4>3 DEF Sums, AddsUp
      <4>5. BlankUntilRecorded'
        BY <1>0, <3>1, <4>1 DEF BlankUntilRecorded
      <4> QED BY <4>2, <4>4, <4>5
    <3>3. CASE ~HasRow(Here(j))
      <4>1. status' = status /\ applied' = applied
        BY <2>2, <3>3 DEF Update
      <4>2. Working' /\ OneHolder'
        <5>1. CASE Kind[Here(j)] = "test"
          <6>1. GoTo(j, "note")
            BY <2>2, <5>1 DEF Update
          <6> QED BY <1>0, <2>0, <2>g, <3>1, <4>1, <5>1, <6>1, GoToFacts, JobMoves, SMTT(30) DEF Phases
        <5>2. CASE Kind[Here(j)] # "test"
          <6>1. GoOn(j)
            BY <2>2, <5>2 DEF Update
          <6> QED BY <1>0, <2>0, <2>g, <3>1, <4>1, <6>1, GoOnFacts, JobMoves DEF Phases
        <5> QED BY <5>1, <5>2
      <4> QED BY <1>0, <3>1, <4>1, <4>2 DEF BlankUntilRecorded, Sums, AddsUp
    <3> QED BY <3>2, <3>3
  (* A note is read, and this job may begin to hold it. *)
  <2>3. CASE ReadNote(j)
    <3>1. /\ pc[j] = "note" /\ Item(j).status \in Reported /\ Says(j) \in Reported /\ Kind[Here(j)] = "test"
          /\ content' = content /\ job' = job /\ stage' = stage /\ status' = status /\ overlap \subseteq overlap'
      BY <2>0, <2>3, <1>0, ItemFacts DEF ReadNote, Working, rowVars
    <3>2. CASE stage[Here(j)] # "recorded"
      <4>1. GoOn(j) /\ applied' = applied /\ overlap' = overlap
        BY <2>3, <3>2 DEF ReadNote
      <4>2. Working' /\ OneHolder'
        BY <1>0, <2>0, <2>g, <3>1, <4>1, GoOnFacts, JobMoves, SMTT(30) DEF Phases
      <4> QED BY <1>0, <3>1, <4>1, <4>2 DEF BlankUntilRecorded, Sums, AddsUp
    <3>3. CASE stage[Here(j)] = "recorded" /\ ~Advances(status[Here(j)], Says(j))
      <4>1. GoOn(j) /\ applied' = [applied EXCEPT ![Here(j)] = applied[Here(j)] \cup {Says(j)}]
        BY <2>3, <3>3 DEF ReadNote
      <4>2. Working' /\ OneHolder'
        BY <1>0, <2>0, <2>g, <3>1, <4>1, GoOnFacts, JobMoves, SMTT(30) DEF Phases
      <4>3. ASSUME Here(j) \notin overlap
            PROVE  SumOf(FirstStatus(Here(j)), applied'[Here(j)], status[Here(j)])
        <5>1. SumOf(FirstStatus(Here(j)), applied[Here(j)], status[Here(j)])
          BY <1>0, <2>f, <3>3, <4>3 DEF Sums, AddsUp
        <5>2. applied'[Here(j)] = applied[Here(j)] \cup {Says(j)}
          BY <1>0, <2>f, <4>1
        <5>3. SumOf(FirstStatus(Here(j)), applied[Here(j)] \cup {Says(j)},
                    IF Advances(status[Here(j)], Says(j)) THEN Says(j) ELSE status[Here(j)])
          BY <1>0, <2>f, <3>1, <5>1, FirstIsOne, OneMoreReport
        <5> QED BY <3>3, <5>2, <5>3
      <4>4. Sums'
        BY <1>0, <2>f, <3>1, <4>1, <4>3 DEF Sums, AddsUp
      <4>5. BlankUntilRecorded'
        BY <1>0, <3>1, <3>3, <4>1 DEF BlankUntilRecorded
      <4> QED BY <4>2, <4>4, <4>5
    <3>4. CASE stage[Here(j)] = "recorded" /\ Advances(status[Here(j)], Says(j))
      <4>1. /\ GoTo(j, "write") /\ applied' = applied
            /\ (\E k \in Slots : pc[k] = "write" /\ Here(k) = Here(j)) => Here(j) \in overlap'
        BY <2>3, <3>4 DEF ReadNote
      <4>2. /\ pc' = [pc EXCEPT ![j] = "write"] /\ at' = at
            /\ \A k \in Slots : Item(k)' = Item(k) /\ Here(k)' = Here(k) /\ Says(k)' = Says(k)
        BY <3>1, <4>1 DEF GoTo, Item, Here, Says, Mapped
      <4>3. \A k \in Slots : k # j => pc'[k] = pc[k]
        BY <4>2, <1>0
      <4>4. Working'
        BY <1>0, <3>1, <3>4, <4>2, <4>3 DEF Working
      <4>5. OneHolder'
        BY <1>0, <3>1, <4>1, <4>2, <4>3 DEF OneHolder
      <4> QED BY <1>0, <3>1, <4>1, <4>4, <4>5 DEF BlankUntilRecorded, Sums, AddsUp
    <3> QED BY <3>2, <3>3, <3>4
  (* It writes what it holds; anyone else who holds it is an overlap. *)
  <2>4. CASE WriteNote(j)
    <3>1. /\ pc[j] = "write" /\ Item(j).status \in Reported /\ Says(j) \in Reported /\ GoOn(j)
          /\ stage[Here(j)] = "recorded" /\ Kind[Here(j)] = "test"
          /\ Here(j) \notin overlap => Advances(status[Here(j)], Says(j))
          /\ content' = content /\ job' = job /\ stage' = stage /\ overlap' = overlap
          /\ status' = [status EXCEPT ![Here(j)] = Says(j)]
          /\ applied' = [applied EXCEPT ![Here(j)] = applied[Here(j)] \cup {Says(j)}]
      BY <2>0, <2>4, <1>0, ItemFacts DEF WriteNote, Working
    <3>2. \A k \in Slots : k # j /\ pc[k] = "write" =>
             Here(k) \in overlap \/ status'[Here(k)] = status[Here(k)]
      BY <1>0, <2>f, <2>g, <3>1 DEF OneHolder
    <3>3. Working' /\ OneHolder'
      BY <1>0, <2>0, <2>g, <3>1, <3>2, GoOnFacts, JobMoves, SMTT(30) DEF Phases
    <3>4. ASSUME Here(j) \notin overlap
          PROVE  SumOf(FirstStatus(Here(j)), applied'[Here(j)], status'[Here(j)])
      <4>1. SumOf(FirstStatus(Here(j)), applied[Here(j)], status[Here(j)])
        BY <1>0, <2>f, <3>1, <3>4 DEF Sums, AddsUp
      <4>2. applied'[Here(j)] = applied[Here(j)] \cup {Says(j)} /\ status'[Here(j)] = Says(j)
        BY <1>0, <2>f, <3>1
      <4> QED BY <1>0, <2>f, <3>1, <3>4, <4>1, <4>2, FirstIsOne, OneMoreReport, ZenonT(60)
    <3>5. Sums'
      BY <1>0, <2>f, <3>1, <3>4 DEF Sums, AddsUp
    <3>6. BlankUntilRecorded'
      BY <1>0, <3>1 DEF BlankUntilRecorded
    <3> QED BY <3>3, <3>5, <3>6
  <2>5. CASE RecordEcho(j)
    <3>1. content' = content /\ job' = job /\ applied' = applied /\ overlap' = overlap
      BY <2>5 DEF RecordEcho, history
    <3>2. CASE stage[Here(j)] = "recorded"
      <4>1. GoOn(j) /\ stage' = stage /\ status' = status
        BY <2>5, <3>2 DEF RecordEcho
      <4>2. Working' /\ OneHolder'
        BY <1>0, <2>0, <2>g, <3>1, <4>1, GoOnFacts, JobMoves DEF Phases
      <4> QED BY <1>0, <3>1, <4>1, <4>2 DEF BlankUntilRecorded, Sums, AddsUp
    <3>3. CASE stage[Here(j)] # "recorded"
      <4>1. /\ GoTo(j, "custody") /\ stage' = [stage EXCEPT ![Here(j)] = "recorded"]
            /\ status' = [status EXCEPT ![Here(j)] = FirstStatus(Here(j))]
        BY <2>5, <3>3 DEF RecordEcho
      <4>2. \A k \in Slots : pc[k] = "write" => /\ stage'[Here(k)] = "recorded"
                                               /\ status'[Here(k)] = status[Here(k)]
        BY <1>0, <2>f, <2>g, <3>3, <4>1
      <4>3. Working' /\ OneHolder'
        BY <1>0, <2>0, <3>1, <4>1, <4>2, GoToFacts, JobMoves, SMTT(30) DEF Phases
      <4>4. applied[Here(j)] = {} /\ SumOf(FirstStatus(Here(j)), {}, FirstStatus(Here(j)))
        BY <1>0, <2>f, <3>3, FirstAddsUp DEF BlankUntilRecorded
      <4>5. BlankUntilRecorded' /\ Sums'
        BY <1>0, <2>f, <3>1, <4>1, <4>4 DEF BlankUntilRecorded, Sums, AddsUp
      <4> QED BY <4>3, <4>5
    <3> QED BY <3>2, <3>3
  <2> QED BY <1>7, <2>1, <2>2, <2>3, <2>4, <2>5 DEF JobNext
<1> QED BY <1>t, <1>1, <1>2, <1>3, <1>4, <1>5, <1>6, <1>7 DEF Next, IInv

-----------------------------------------------------------------------------
(* The reports of a delivery, and the echoes.                              *)

(* What is on record of a report stays there. *)
LEMMA RecordsStay ==
  ASSUME TypeOK, [Next]_vars
  PROVE  /\ content' = content /\ early \subseteq early' /\ swallowed \subseteq swallowed'
         /\ \A m \in Messages : /\ applied[m] \subseteq applied'[m]
                                /\ stage[m] = "recorded" => stage'[m] = "recorded"
<1> USE DEF rowVars, queueVars, history
<1>0. /\ applied \in [Messages -> SUBSET Reported]
      /\ stage \in [Messages -> {"accepted", "recorded", "lost"}]
  BY DEF TypeOK
<1>1. ASSUME NEW m \in Messages, Commit(m) \/ RollBack(m)
      PROVE  /\ UNCHANGED <<content, early, swallowed, applied>>
             /\ \A n \in Messages : stage[n] = "recorded" => stage'[n] = "recorded"
  BY <1>0, <1>1 DEF Commit, RollBack, AwaitsRecord
<1>2. ASSUME NEW d \in Deliveries, Post(d) PROVE UNCHANGED <<content, early, swallowed, applied, stage>>
  BY <1>2 DEF Post
<1>3. ASSUME NEW j \in Slots, Forget(j) PROVE UNCHANGED <<content, early, swallowed, applied, stage>>
  BY <1>3 DEF Forget
<1>4. CASE Crash \/ UNCHANGED vars
  BY <1>4 DEF Crash, vars
<1>5. ASSUME NEW j \in Slots, JobNext(j)
      PROVE  /\ content' = content /\ early \subseteq early' /\ swallowed \subseteq swallowed'
             /\ \A m \in Messages : /\ applied[m] \subseteq applied'[m]
                                    /\ stage[m] = "recorded" => stage'[m] = "recorded"
  <2>1. CASE Take(j) \/ TakeCustody(j) \/ Publish(j) \/ LookupFails(j) \/ Swallow(j) \/ EchoFails(j)
    BY <2>1 DEF Take, TakeCustody, Publish, LookupFails, Swallow, EchoFails
  <2>2. CASE Update(j)
    BY <2>2, <1>0 DEF Update
  <2>3. CASE ReadNote(j)
    BY <2>3, <1>0 DEF ReadNote
  <2>4. CASE WriteNote(j)
    BY <2>4, <1>0 DEF WriteNote
  <2>5. CASE RecordEcho(j)
    BY <2>5, <1>0 DEF RecordEcho
  <2> QED BY <1>5, <2>1, <2>2, <2>3, <2>4, <2>5 DEF JobNext
<1> QED BY <1>1, <1>2, <1>3, <1>4, <1>5 DEF Next

(* A job that goes on has settled the report it was at, or that stays      *)
(* ahead of it.                                                            *)
LEMMA GoesOnAhead ==
  ASSUME TypeOK, NEW j \in Slots, pc[j] # "free", Active(j), GoOn(j),
         NEW i \in 1..Len(content[job[j]]), Ahead(j, i), i # at[j]
  PROVE  Ahead(j, i)'
<1>1. /\ content[job[j]] \in Seq(Report) /\ at[j] \in 1..Len(content[job[j]])
      /\ Len(content[job[j]]) \in Nat
      /\ pc \in [Slots -> Phases] /\ at \in [Slots -> Nat \ {0}]
  BY ItemFacts DEF TypeOK, Phases
<1>2. at[j] < i /\ at[j] < Len(content[job[j]])
  BY <1>1 DEF Ahead, Active
<1>3. pc'[j] \in {"update", "echo"} /\ at'[j] = at[j] + 1
  BY <1>1, <1>2 DEF GoOn, PhaseOf
<1> QED BY <1>1, <1>2, <1>3 DEF Ahead, Active

LEMMA StaysAhead ==
  ASSUME TypeOK, NEW j \in Slots, Active(j),
         NEW p \in {"waiting", "note", "write", "custody", "publish"}, GoTo(j, p),
         NEW i \in Nat, Ahead(j, i)
  PROVE  Ahead(j, i)'
  BY DEF TypeOK, GoTo, Ahead, Active

LEMMA JobSettles ==
  ASSUME IInv, EchoWork, NEW j \in Slots, JobNext(j), NEW d, job[j] = d,
         NEW i \in 1..Len(content[d]), Ahead(j, i)
  PROVE  Ahead(j, i)' \/ Settled(d, i)'
<1>0. /\ TypeOK /\ Working /\ pc[j] # "free" /\ content' = content
      /\ pc \in [Slots -> Phases] /\ at \in [Slots -> Nat \ {0}]
  BY JobFrame DEF IInv, TypeOK, Phases
<1>1. /\ job[j] \in Deliveries /\ content[job[j]] \in Seq(Report) /\ job' = job
      /\ Len(content[job[j]]) \in Nat \ {0} /\ at[j] \in 1..Len(content[job[j]])
      /\ Item(j) \in Report /\ Here(j) \in Messages /\ i \in Nat
      /\ Item(j) = content[job[j]][at[j]]
  BY <1>0, ItemFacts, JobFrame DEF Item
<1>2. /\ Here(j) = Item(j).of /\ Says(j) = Mapped(Item(j).of, Item(j).status)
      /\ applied[Here(j)] \subseteq Reported
  BY <1>0, <1>1 DEF Here, Says, TypeOK
<1>a. PICK a : a = at[j] /\ Item(j) = content[d][a]
  BY <1>1
<1>3. ASSUME Active(j), GoOn(j), Settled(d, a)' PROVE Ahead(j, i)' \/ Settled(d, i)'
  <2>1. CASE i = a
    BY <1>3, <2>1
  <2>2. CASE i # a
    BY <1>0, <1>a, <1>3, <2>2, GoesOnAhead
  <2> QED BY <2>1, <2>2
<1>4. ASSUME Active(j), NEW p \in {"waiting", "note", "write", "custody", "publish"}, GoTo(j, p)
      PROVE  Ahead(j, i)'
  BY <1>0, <1>1, <1>4, StaysAhead
<1>5. \/ Item(j) \in early' \cup swallowed'
      \/ Says(j) \in applied'[Here(j)]
      \/ Item(j).status = "echo" /\ stage'[Here(j)] = "recorded"
      => Settled(d, a)'
  BY <1>0, <1>1, <1>2, <1>a DEF Settled, Mapped
<1>6. CASE Take(j)
  BY <1>0, <1>1, <1>6 DEF Take, PhaseOf, Ahead, Active
<1>7. CASE LookupFails(j)
  <2>1. Active(j) /\ (GoTo(j, "waiting") \/ content[d][i] \in swallowed')
    BY <1>7, <1>0, <1>1 DEF LookupFails, Active
  <2>2. content'[d][i] \in swallowed' => Settled(d, i)'
    BY DEF Settled
  <2> QED BY <2>1, <2>2, <1>0, <1>4
<1>8. CASE Update(j)
  <2>1. Active(j)
    BY <1>8 DEF Update, Active
  <2>2. CASE Kind[Here(j)] = "test"
    BY <1>4, <1>8, <2>1, <2>2 DEF Update
  <2>3. CASE Kind[Here(j)] # "test"
    <3>1. GoOn(j) /\ (Says(j) \in applied'[Here(j)] \/ Item(j) \in early')
      BY <1>0, <1>1, <1>8, <2>3 DEF Update, TypeOK
    <3> QED BY <1>3, <1>5, <2>1, <3>1
  <2> QED BY <2>2, <2>3
<1>9. CASE ReadNote(j)
  <2>1. Active(j)
    BY <1>9 DEF ReadNote, Active
  <2>2. \/ GoTo(j, "write")
        \/ GoOn(j) /\ (Says(j) \in applied'[Here(j)] \/ Item(j) \in early')
    BY <1>0, <1>1, <1>9 DEF ReadNote, TypeOK
  <2> QED BY <1>3, <1>4, <1>5, <2>1, <2>2
<1>10. CASE WriteNote(j)
  <2>1. Active(j) /\ GoOn(j) /\ Says(j) \in applied'[Here(j)]
    BY <1>0, <1>1, <1>10 DEF WriteNote, Active, TypeOK
  <2> QED BY <1>3, <1>5, <2>1
<1>11. CASE Swallow(j)
  <2>1. Active(j) /\ GoOn(j) /\ Item(j) \in swallowed'
    BY <1>11 DEF Swallow, Active
  <2> QED BY <1>3, <1>5, <2>1
<1>12. CASE RecordEcho(j)
  <2>1. Active(j) /\ Item(j).status = "echo"
    BY <1>12 DEF RecordEcho, Active, EchoWork
  <2>2. GoTo(j, "custody") \/ (GoOn(j) /\ stage'[Here(j)] = "recorded")
    BY <1>12 DEF RecordEcho
  <2> QED BY <1>3, <1>4, <1>5, <2>1, <2>2
<1>13. CASE TakeCustody(j)
  BY <1>4, <1>13 DEF TakeCustody, Active
<1>14. CASE Publish(j) \/ (EchoFails(j) /\ pc[j] # "echo")
  <2>1. Active(j) /\ GoOn(j) /\ Mirroring(j) /\ stage' = stage
    BY <1>14 DEF Publish, EchoFails, Active, Mirroring, rowVars
  <2>2. Item(j).status = "echo" /\ stage'[Here(j)] = "recorded"
    BY <2>1 DEF EchoWork
  <2> QED BY <1>3, <1>5, <2>1, <2>2
<1>15. CASE EchoFails(j) /\ pc[j] = "echo"
  <2>1. Active(j) /\ GoOn(j) /\ Item(j) \in swallowed'
    BY <1>15 DEF EchoFails, Active
  <2> QED BY <1>3, <1>5, <2>1
<1> QED BY <1>6, <1>7, <1>8, <1>9, <1>10, <1>11, <1>12, <1>13, <1>14, <1>15 DEF JobNext

LEMMA Accounts ==
  EveryReportAccounted <=>
    \A d \in Deliveries : (\E j \in Slots : job[j] = d) =>
      \A i \in 1..Len(content[d]) :
        Settled(d, i) \/ \E j \in Slots : job[j] = d /\ Ahead(j, i)
  BY DEF EveryReportAccounted, Settled, InHand, Ahead

LEMMA StepAccounted == IInv /\ EchoWork /\ EveryReportAccounted /\ [Next]_vars => EveryReportAccounted'
<1> SUFFICES ASSUME IInv, EchoWork, EveryReportAccounted, [Next]_vars,
                    NEW d \in Deliveries, NEW h \in Slots, job'[h] = d, NEW i \in 1..Len(content'[d])
             PROVE  Settled(d, i)' \/ \E k \in Slots : job'[k] = d /\ Ahead(k, i)'
  BY DEF EveryReportAccounted, Settled, InHand, Ahead
<1>0. /\ TypeOK /\ content' = content /\ early \subseteq early' /\ swallowed \subseteq swallowed'
      /\ \A m \in Messages : /\ applied[m] \subseteq applied'[m]
                             /\ stage[m] = "recorded" => stage'[m] = "recorded"
      /\ pc \in [Slots -> Phases] /\ job \in [Slots -> Deliveries \cup {None}]
  BY RecordsStay DEF IInv, TypeOK, Phases
<1>1. content[d][i] \in Report
  BY <1>0, ConstantsAssumption DEF TypeOK
<1>2. Settled(d, i) => Settled(d, i)'
  <2>1. PICK r : r = content[d][i] /\ r = content'[d][i] /\ r.of \in Messages
    BY <1>0, <1>1 DEF Report
  <2>2. Settled(d, i) => \/ r.status = "echo" /\ stage[r.of] = "recorded"
                         \/ Mapped(r.of, r.status) \in applied[r.of]
                         \/ r \in early \cup swallowed
    BY <2>1 DEF Settled
  <2>3. \/ r.status = "echo" /\ stage'[r.of] = "recorded"
        \/ Mapped(r.of, r.status) \in applied'[r.of]
        \/ r \in early' \cup swallowed'
        => Settled(d, i)'
    BY <2>1 DEF Settled, Mapped
  <2>4. early \subseteq early' /\ swallowed \subseteq swallowed'
    BY <1>0
  <2>5. \A m \in Messages : /\ applied[m] \subseteq applied'[m]
                            /\ stage[m] = "recorded" => stage'[m] = "recorded"
    BY <1>0
  <2>6. /\ applied[r.of] \subseteq applied'[r.of]
        /\ stage[r.of] = "recorded" => stage'[r.of] = "recorded"
    BY <2>1, <2>5
  <2> QED BY <2>2, <2>3, <2>4, <2>5, <2>6
<1>3. ASSUME job' = job, \A k \in Slots : job[k] = d /\ Ahead(k, i) => Ahead(k, i)' \/ Settled(d, i)'
      PROVE  Settled(d, i)' \/ \E k \in Slots : job'[k] = d /\ Ahead(k, i)'
  BY <1>0, <1>2, <1>3, Accounts
<1>4. ASSUME NEW m \in Messages, Commit(m) \/ RollBack(m)
      PROVE  Settled(d, i)' \/ \E k \in Slots : job'[k] = d /\ Ahead(k, i)'
  BY <1>3, <1>4 DEF Commit, RollBack, queueVars, Ahead, Active
<1>5. ASSUME NEW e \in Deliveries, Post(e)
      PROVE  Settled(d, i)' \/ \E k \in Slots : job'[k] = d /\ Ahead(k, i)'
  <2>1. CASE Duplicate(e)
    BY <1>3, <1>5, <2>1 DEF Post, Ahead, Active
  <2>2. CASE ~Duplicate(e)
    <3>1. PICK j \in Slots : pc[j] = "free" /\ job' = [job EXCEPT ![j] = e] /\ pc' = [pc EXCEPT ![j] = "waiting"]
      BY <1>5, <2>2 DEF Post
    <3>2. at' = at
      BY <1>5 DEF Post
    <3>3. CASE e = d
      <4>1. job'[j] = d /\ Ahead(j, i)'
        BY <1>0, <3>1, <3>3 DEF Ahead
      <4> QED BY <4>1
    <3>4. CASE e # d
      <4>1. h # j /\ job[h] = d
        BY <1>0, <3>1, <3>4
      <4>2. \A k \in Slots : job[k] = d /\ Ahead(k, i) => job'[k] = d /\ Ahead(k, i)'
        BY <1>0, <3>1, <3>2, <3>4 DEF Ahead, Active
      <4> QED BY <1>0, <1>2, <4>1, <4>2, Accounts
    <3> QED BY <3>3, <3>4
  <2> QED BY <2>1, <2>2
<1>6. ASSUME NEW j \in Slots, Forget(j)
      PROVE  Settled(d, i)' \/ \E k \in Slots : job'[k] = d /\ Ahead(k, i)'
  BY <1>0, <1>3, <1>6 DEF Forget, Ahead, Active
<1>7. CASE Crash
  BY <1>0, <1>3, <1>7 DEF Crash, Ahead, Active
<1>8. CASE UNCHANGED vars
  BY <1>3, <1>8 DEF vars, queueVars, Ahead, Active
<1>9. ASSUME NEW j \in Slots, JobNext(j)
      PROVE  Settled(d, i)' \/ \E k \in Slots : job'[k] = d /\ Ahead(k, i)'
  <2>1. /\ job' = job /\ pc' = [pc EXCEPT ![j] = pc'[j]] /\ at' = [at EXCEPT ![j] = at'[j]]
    BY <1>0, <1>9, JobFrame
  <2>2. job[j] = d /\ Ahead(j, i) => Ahead(j, i)' \/ Settled(d, i)'
    <3>1. i \in 1..Len(content[d])
      BY <1>0
    <3> QED BY <1>9, <3>1, JobSettles
  <2>3. \A k \in Slots : k # j /\ Ahead(k, i) => Ahead(k, i)'
    BY <1>0, <2>1 DEF Ahead, Active, TypeOK
  <2> QED BY <1>3, <2>1, <2>2, <2>3
<1> QED BY <1>4, <1>5, <1>6, <1>7, <1>8, <1>9 DEF Next

-----------------------------------------------------------------------------
(* How a step of one job that does not leave it mirroring keeps the work   *)
(* of the others.                                                          *)
LEMMA EchoMoves ==
  ASSUME TypeOK, EchoWork, NEW j \in Slots, content' = content, job' = job,
         pc' = [pc EXCEPT ![j] = pc'[j]], at' = [at EXCEPT ![j] = at'[j]],
         pc'[j] \notin {"custody", "publish"},
         pc'[j] = "echo" => content[job[j]][at'[j]].status = "echo",
         taken \subseteq taken',
         \A k \in Slots : k # j /\ Mirroring(k) => stage'[Here(k)] = "recorded" /\ published'[Here(k)] = 0,
         \A m \in Messages : stage'[m] # "recorded" => published'[m] = 0
  PROVE  EchoWork'
<1>1. /\ \A k \in Slots : k # j => Item(k)' = Item(k) /\ Here(k)' = Here(k) /\ pc'[k] = pc[k]
      /\ Item(j)' = content[job[j]][at'[j]]
  BY OthersStay DEF TypeOK
<1> QED BY <1>1 DEF EchoWork, Mirroring

(* How a step that takes no message off the record, and moves no job that  *)
(* is at an echo, keeps them all.                                          *)
LEMMA EchoesStay ==
  ASSUME TypeOK, EchoWork, taken' = taken, published' = published,
         \A k \in Slots : /\ pc'[k] = "echo" \/ Mirroring(k)' => pc'[k] = pc[k]
                          /\ pc'[k] = pc[k] => Item(k)' = Item(k) /\ Here(k)' = Here(k),
         \A m \in Messages : stage[m] = "recorded" => stage'[m] = "recorded"
  PROVE  EchoWork'
<1>1. \A k \in Slots : pc'[k] \in {"custody", "publish"} => pc'[k] = pc[k] /\ Here(k) \in Messages
  BY ItemFacts DEF Mirroring
<1> QED BY <1>1 DEF EchoWork, Mirroring

LEMMA StepEchoWork == IInv /\ EchoWork /\ [Next]_vars => EchoWork'
<1> SUFFICES ASSUME IInv, EchoWork, [Next]_vars PROVE EchoWork'
  OBVIOUS
<1>0. /\ TypeOK /\ Working /\ content' = content
      /\ \A m \in Messages : stage[m] = "recorded" => stage'[m] = "recorded"
      /\ pc \in [Slots -> Phases] /\ job \in [Slots -> Deliveries \cup {None}]
      /\ stage \in [Messages -> {"accepted", "recorded", "lost"}] /\ published \in [Messages -> Nat]
  BY RecordsStay DEF IInv, TypeOK, Phases
<1>a. ASSUME pc' = pc, job' = job, at' = at
      PROVE  \A k \in Slots : Item(k)' = Item(k) /\ Here(k)' = Here(k)
  BY <1>0, <1>a DEF Item, Here
<1>1. ASSUME NEW m \in Messages, Commit(m) \/ RollBack(m) PROVE EchoWork'
  BY <1>0, <1>1, <1>a, EchoesStay DEF Commit, RollBack, queueVars, history
<1>2. ASSUME NEW d \in Deliveries, Post(d) PROVE EchoWork'
  <2>1. taken' = taken /\ published' = published /\ at' = at
    BY <1>2 DEF Post, rowVars
  <2>2. CASE Duplicate(d)
    BY <1>0, <1>2, <1>a, <2>1, <2>2, EchoesStay DEF Post
  <2>3. CASE ~Duplicate(d)
    <3>1. PICK j \in Slots : pc[j] = "free" /\ job' = [job EXCEPT ![j] = d] /\ pc' = [pc EXCEPT ![j] = "waiting"]
      BY <1>2, <2>3 DEF Post
    <3>2. \A k \in Slots : /\ k # j => pc'[k] = pc[k] /\ Item(k)' = Item(k) /\ Here(k)' = Here(k)
                           /\ pc'[j] = "waiting"
      BY <1>0, <2>1, <3>1 DEF Item, Here
    <3> QED BY <1>0, <2>1, <3>1, <3>2, EchoesStay DEF Mirroring
  <2> QED BY <2>2, <2>3
<1>3. ASSUME NEW j \in Slots, Forget(j) PROVE EchoWork'
  <2>1. \A k \in Slots : Item(k)' = Item(k) /\ Here(k)' = Here(k) /\ (k # j => pc'[k] = pc[k])
    BY <1>0, <1>3 DEF Forget, Item, Here
  <2> QED BY <1>0, <1>3, <2>1, EchoesStay DEF Forget, rowVars, history, Mirroring
<1>4. CASE Crash
  <2>1. \A k \in Slots : Item(k)' = Item(k) /\ Here(k)' = Here(k)
    BY <1>0, <1>4 DEF Crash, Item, Here
  <2> QED BY <1>0, <1>4, <2>1, EchoesStay DEF Crash, Active, rowVars, Mirroring
<1>5. CASE UNCHANGED vars
  BY <1>0, <1>5, <1>a, EchoesStay DEF vars, rowVars, queueVars, history, Mirroring
<1>6. ASSUME NEW j \in Slots, JobNext(j) PROVE EchoWork'
  <2>0. /\ job' = job /\ pc' = [pc EXCEPT ![j] = pc'[j]] /\ at' = [at EXCEPT ![j] = at'[j]]
        /\ pc[j] # "free" /\ Here(j) \in Messages
    BY <1>0, <1>6, JobFrame, ItemFacts
  <2>a. \A k \in Slots : Mirroring(k) => /\ Here(k) \in Messages /\ stage[Here(k)] = "recorded"
                                        /\ published[Here(k)] = 0
    BY <1>0, ItemFacts DEF EchoWork, Mirroring
  <2>b. ASSUME published' = published
        PROVE  /\ \A k \in Slots : k # j /\ Mirroring(k) => /\ stage'[Here(k)] = "recorded"
                                                            /\ published'[Here(k)] = 0
               /\ \A m \in Messages : stage'[m] # "recorded" => published'[m] = 0
    BY <1>0, <2>a, <2>b DEF EchoWork
  <2>c. ASSUME GoOn(j)
        PROVE  /\ pc'[j] \notin {"custody", "publish"}
               /\ pc'[j] = "echo" => content[job[j]][at'[j]].status = "echo"
    BY <1>0, <2>0, <2>c, GoOnFacts
  <2>d. ASSUME NEW p \in Phases \ {"custody", "publish", "echo"}, GoTo(j, p)
        PROVE  /\ pc'[j] \notin {"custody", "publish"}
               /\ pc'[j] = "echo" => content[job[j]][at'[j]].status = "echo"
    BY <1>0, <2>0, <2>d, GoToFacts
  <2>1. CASE Take(j)
    <3>1. /\ pc'[j] = PhaseOf(content[job[j]][1]) /\ at'[j] = 1
          /\ published' = published /\ taken' = taken
      BY <1>0, <2>1 DEF Take, rowVars, history, TypeOK
    <3> QED BY <1>0, <2>0, <2>b, <3>1, EchoMoves DEF PhaseOf
  <2>2. CASE Update(j) \/ ReadNote(j) \/ WriteNote(j) \/ Swallow(j) \/ EchoFails(j) \/ LookupFails(j)
    <3>1. published' = published /\ taken' = taken
      BY <2>2 DEF Update, ReadNote, WriteNote, Swallow, EchoFails, LookupFails, rowVars
    <3>2. \/ GoOn(j)
          \/ \E p \in {"note", "write", "waiting", "failed"} : GoTo(j, p)
      BY <2>2 DEF Update, ReadNote, WriteNote, Swallow, EchoFails, LookupFails
    <3>3. /\ pc'[j] \notin {"custody", "publish"}
          /\ pc'[j] = "echo" => content[job[j]][at'[j]].status = "echo"
      BY <2>c, <2>d, <3>2 DEF Phases
    <3> QED BY <1>0, <2>0, <2>b, <3>1, <3>3, EchoMoves
  <2>3. CASE RecordEcho(j)
    <3>1. published' = published /\ taken' = taken /\ Item(j).status = "echo"
      BY <2>3 DEF RecordEcho, history, EchoWork
    <3>2. CASE stage[Here(j)] = "recorded"
      <4>1. GoOn(j)
        BY <2>3, <3>2 DEF RecordEcho
      <4> QED BY <1>0, <2>0, <2>b, <2>c, <3>1, <4>1, EchoMoves
    <3>3. CASE stage[Here(j)] # "recorded"
      <4>1. GoTo(j, "custody") /\ stage' = [stage EXCEPT ![Here(j)] = "recorded"]
        BY <2>3, <3>3 DEF RecordEcho
      <4>2. \A k \in Slots : Item(k)' = Item(k) /\ Here(k)' = Here(k) /\ (k # j => pc'[k] = pc[k])
        BY <1>0, <2>0, <4>1 DEF GoTo, Item, Here
      <4>3. pc'[j] = "custody" /\ published[Here(j)] = 0 /\ stage'[Here(j)] = "recorded"
        BY <1>0, <2>0, <3>3, <4>1 DEF GoTo, EchoWork
      <4> QED BY <1>0, <2>0, <2>a, <2>b, <3>1, <3>3, <4>2, <4>3 DEF EchoWork, Mirroring
    <3> QED BY <3>2, <3>3
  <2>4. CASE TakeCustody(j)
    <3>1. /\ GoTo(j, "publish") /\ pc[j] = "custody" /\ published' = published /\ stage' = stage
          /\ taken' = taken \cup {Here(j)}
      BY <2>4 DEF TakeCustody, history
    <3>2. \A k \in Slots : Item(k)' = Item(k) /\ Here(k)' = Here(k) /\ (k # j => pc'[k] = pc[k])
      BY <1>0, <2>0, <3>1 DEF GoTo, Item, Here
    <3> QED BY <1>0, <2>0, <3>1, <3>2 DEF EchoWork, Mirroring
  <2>5. CASE Publish(j)
    <3>1. /\ pc[j] = "publish" /\ GoOn(j) /\ stage' = stage /\ taken' = taken
          /\ published' = [published EXCEPT ![Here(j)] = published[Here(j)] + 1]
      BY <2>5 DEF Publish, rowVars
    <3>2. \A k \in Slots : k # j /\ Mirroring(k) => Here(k) # Here(j)
      BY <3>1 DEF EchoWork, Mirroring
    <3>3. stage[Here(j)] = "recorded"
      BY <2>a, <3>1 DEF Mirroring
    <3> QED BY <1>0, <2>0, <2>a, <2>c, <3>1, <3>2, <3>3, EchoMoves DEF EchoWork
  <2> QED BY <1>6, <2>1, <2>2, <2>3, <2>4, <2>5 DEF JobNext
<1> QED BY <1>1, <1>2, <1>3, <1>4, <1>5, <1>6 DEF Next

(* An echo on record is in its sender's hands, or cut short, or its job    *)
(* has still to hand it over.                                              *)
HandedOver(m) == stage[m] = "recorded" => \/ m \in taken \cup cut
                                          \/ \E k \in Slots : pc[k] = "custody" /\ Here(k) = m

LEMMA StepMirrored == IInv /\ EchoWork /\ EchoesAreMirrored /\ [Next]_vars => EchoesAreMirrored'
<1> SUFFICES ASSUME IInv, EchoWork, EchoesAreMirrored, [Next]_vars, NEW m \in Messages, Kind[m] = "echo"
             PROVE  /\ published'[m] <= 1
                    /\ published'[m] = 1 => m \in taken'
                    /\ HandedOver(m)'
  BY DEF EchoesAreMirrored, HandedOver
<1>0. /\ TypeOK /\ Working /\ content' = content
      /\ pc \in [Slots -> Phases] /\ job \in [Slots -> Deliveries \cup {None}]
      /\ stage \in [Messages -> {"accepted", "recorded", "lost"}] /\ published \in [Messages -> Nat]
      /\ published[m] <= 1 /\ (published[m] = 1 => m \in taken) /\ HandedOver(m)
  BY RecordsStay DEF IInv, TypeOK, Phases, EchoesAreMirrored, HandedOver
(* A step that records nothing, tells nobody and moves no job that has to  *)
(* hand the echo over. *)
<1>a. ASSUME published' = published, taken \subseteq taken', cut \subseteq cut',
             stage'[m] = "recorded" => stage[m] = "recorded",
             \A k \in Slots : pc[k] = "custody" /\ Here(k) = m =>
               \/ pc'[k] = "custody" /\ Here(k)' = m
               \/ m \in taken' \cup cut'
      PROVE  /\ published'[m] <= 1
             /\ published'[m] = 1 => m \in taken'
             /\ HandedOver(m)'
  BY <1>0, <1>a DEF HandedOver
<1>1. ASSUME NEW n \in Messages, Commit(n) \/ RollBack(n)
      PROVE  published'[m] <= 1 /\ (published'[m] = 1 => m \in taken') /\ HandedOver(m)'
  <2>1. n # m /\ taken' = taken /\ cut' = cut /\ published' = published
    BY <1>1 DEF Commit, RollBack, AwaitsRecord, history
  <2>2. stage'[m] = stage[m] /\ \A k \in Slots : pc'[k] = pc[k] /\ Here(k)' = Here(k)
    BY <1>0, <1>1, <2>1 DEF Commit, RollBack, queueVars, Item, Here
  <2> QED BY <1>a, <2>1, <2>2
<1>2. ASSUME NEW d \in Deliveries, Post(d)
      PROVE  published'[m] <= 1 /\ (published'[m] = 1 => m \in taken') /\ HandedOver(m)'
  <2>1. /\ taken' = taken /\ published' = published /\ at' = at /\ cut' = cut /\ stage' = stage
        /\ \/ job' = job /\ pc' = pc
           \/ \E j \in Slots : /\ pc[j] = "free" /\ job' = [job EXCEPT ![j] = d]
                               /\ pc' = [pc EXCEPT ![j] = "waiting"]
    BY <1>2 DEF Post, rowVars
  <2>2. \A k \in Slots : pc[k] = "custody" => pc'[k] = "custody" /\ Here(k)' = Here(k)
    BY <1>0, <2>1 DEF Item, Here
  <2> QED BY <1>a, <2>1, <2>2
<1>3. ASSUME NEW j \in Slots, Forget(j)
      PROVE  published'[m] <= 1 /\ (published'[m] = 1 => m \in taken') /\ HandedOver(m)'
  <2>1. /\ taken' = taken /\ published' = published /\ cut' = cut /\ stage' = stage
        /\ \A k \in Slots : pc[k] = "custody" => pc'[k] = "custody" /\ Here(k)' = Here(k)
    BY <1>0, <1>3 DEF Forget, rowVars, history, Item, Here
  <2> QED BY <1>a, <2>1
<1>4. CASE Crash
  <2>1. /\ taken' = taken /\ published' = published /\ cut \subseteq cut' /\ stage' = stage
        /\ \A k \in Slots : pc[k] = "custody" /\ Here(k) = m => m \in cut'
    BY <1>4 DEF Crash, rowVars
  <2> QED BY <1>a, <2>1
<1>5. CASE UNCHANGED vars
  <2>1. /\ taken' = taken /\ published' = published /\ cut' = cut /\ stage' = stage
        /\ \A k \in Slots : pc'[k] = pc[k] /\ Here(k)' = Here(k)
    BY <1>5 DEF vars, rowVars, queueVars, history, Item, Here
  <2> QED BY <1>a, <2>1
<1>6. ASSUME NEW j \in Slots, JobNext(j)
      PROVE  published'[m] <= 1 /\ (published'[m] = 1 => m \in taken') /\ HandedOver(m)'
  <2>0. /\ job' = job /\ pc' = [pc EXCEPT ![j] = pc'[j]] /\ at' = [at EXCEPT ![j] = at'[j]]
        /\ pc[j] # "free" /\ Here(j) \in Messages
        /\ \A k \in Slots : k # j => pc'[k] = pc[k] /\ Here(k)' = Here(k)
    BY <1>0, <1>6, JobFrame, ItemFacts, OthersStay
  <2>1. CASE Take(j) \/ Update(j) \/ ReadNote(j) \/ WriteNote(j) \/ Swallow(j) \/ LookupFails(j)
    <3>1. /\ published' = published /\ taken' = taken /\ stage' = stage /\ cut' = cut /\ pc[j] # "custody"
      BY <2>1 DEF Take, Update, ReadNote, WriteNote, Swallow, LookupFails, rowVars, history
    <3> QED BY <1>a, <2>0, <3>1
  <2>2. CASE EchoFails(j)
    <3>1. /\ published' = published /\ taken' = taken /\ stage' = stage /\ cut \subseteq cut'
          /\ pc[j] = "custody" => Here(j) \in cut'
      BY <2>2 DEF EchoFails, rowVars
    <3> QED BY <1>a, <2>0, <3>1
  <2>3. CASE RecordEcho(j)
    <3>1. published' = published /\ taken' = taken /\ cut' = cut /\ pc[j] = "echo"
      BY <2>3 DEF RecordEcho, history
    <3>2. CASE stage[Here(j)] = "recorded" \/ Here(j) # m
      <4>1. stage'[m] = stage[m]
        BY <1>0, <2>0, <2>3, <3>2 DEF RecordEcho
      <4> QED BY <1>a, <2>0, <3>1, <4>1
    <3>3. CASE stage[Here(j)] # "recorded" /\ Here(j) = m
      <4>1. pc'[j] = "custody" /\ Here(j)' = m
        BY <1>0, <2>0, <2>3, <3>3 DEF RecordEcho, GoTo, Item, Here
      <4> QED BY <1>0, <3>1, <4>1 DEF HandedOver
    <3> QED BY <3>2, <3>3
  <2>4. CASE TakeCustody(j)
    <3>1. published' = published /\ taken' = taken \cup {Here(j)} /\ cut' = cut /\ stage' = stage
      BY <2>4 DEF TakeCustody, history
    <3> QED BY <1>a, <2>0, <3>1
  <2>5. CASE Publish(j)
    <3>1. /\ published' = [published EXCEPT ![Here(j)] = published[Here(j)] + 1]
          /\ taken' = taken /\ cut' = cut /\ stage' = stage /\ pc[j] = "publish"
      BY <2>5 DEF Publish, rowVars
    <3>2. published[Here(j)] = 0 /\ Here(j) \in taken
      BY <3>1 DEF EchoWork, Mirroring
    <3>3. published'[m] <= 1 /\ (published'[m] = 1 => m \in taken')
      BY <1>0, <2>0, <3>1, <3>2
    <3>4. HandedOver(m)'
      BY <1>0, <2>0, <3>1 DEF HandedOver
    <3> QED BY <3>3, <3>4
  <2> QED BY <1>6, <2>1, <2>2, <2>3, <2>4, <2>5 DEF JobNext
<1> QED BY <1>1, <1>2, <1>3, <1>4, <1>5, <1>6 DEF Next

LEMMA Invariance == Spec => []IInv
<1> QED BY InitIInv, StepIInv, PTL DEF Spec

LEMMA ReportsInvariance == Spec => []IInv2
<1>1. Init => IInv2
  <2> SUFFICES ASSUME Init PROVE IInv2
    OBVIOUS
  <2>1. EchoWork /\ EchoesAreMirrored
    BY DEF Init, EchoWork, Mirroring, EchoesAreMirrored
  <2>2. EveryReportAccounted
    BY NoneAssumption DEF Init, EveryReportAccounted
  <2> QED BY InitIInv, <2>1, <2>2 DEF IInv2
<1>2. IInv2 /\ [Next]_vars => IInv2'
  BY StepIInv, StepEchoWork, StepAccounted, StepMirrored DEF IInv2
<1> QED BY <1>1, <1>2, PTL DEF Spec

-----------------------------------------------------------------------------
(* Rows, notes, jobs and what was seen of them keep their types; a         *)
(* campaign's recipient never takes a status its table refuses.            *)
THEOREM TypeCorrect == Spec => []TypeOK
<1>1. IInv => TypeOK
  BY DEF IInv
<1> QED BY <1>1, Invariance, PTL

(* A reply's, a recipient's and an echo's status is the sum of the reports *)
(* that reached it, in whatever order, however often and by however many   *)
(* jobs at once (messages.ts, recordDeliveryStatus).                       *)
THEOREM RowsAddUp == Spec => []ReceiptsAddUp
<1>1. IInv => ReceiptsAddUp
  BY DEF IInv, Sums, ReceiptsAddUp
<1> QED BY <1>1, Invariance, PTL

(* A test's note as well, as long as no two jobs had read it at once       *)
(* (campaign-test-status.ts, recordTestSendReceipt).                       *)
THEOREM NotesAddUp == Spec => []TestsAddUp
<1>1. IInv => TestsAddUp
  BY DEF IInv, Sums, TestsAddUp
<1> QED BY <1>1, Invariance, PTL

(* No report the queue took is lost track of: whatever fails, crashes or   *)
(* is tried again, it is applied, or came before its message, or failed,   *)
(* or a job is still to come to it (processor.ts,                          *)
(* processDeliveryStatuses).                                               *)
THEOREM ReportsAreAccounted == Spec => []EveryReportAccounted
<1>1. IInv2 => EveryReportAccounted
  BY DEF IInv2
<1> QED BY <1>1, ReportsInvariance, PTL

(* An echo's live update goes out once, after its conversation was handed  *)
(* over, for any number of jobs, repeats and crashes; and a recorded echo  *)
(* is handed over unless it was cut short (processor.ts,                   *)
(* processMessageEcho).                                                    *)
THEOREM EchoesAreShownOnce == Spec => []EchoesAreMirrored
<1>1. IInv2 => EchoesAreMirrored
  BY DEF IInv2
<1> QED BY <1>1, ReportsInvariance, PTL
===========================================================================
