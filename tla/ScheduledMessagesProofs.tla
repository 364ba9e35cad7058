----------------------- MODULE ScheduledMessagesProofs -----------------------
(***************************************************************************)
(* For any number of messages, overlapping sweeps and crashes: the typing  *)
(* of the model, its three safety invariants and DecidedForGood.           *)
(*                                                                         *)
(* None of the three is inductive alone.  IInv adds what the row's lock    *)
(* guarantees: a row is 'pending' as long as a sweep holds it, and the     *)
(* copies that left are the undone ones plus the holder's own.             *)
(***************************************************************************)
EXTENDS ScheduledMessages, TLAPS

(* Which of the holder's local facts go together. *)
LockInv(m) ==
  /\ holder[m] = Free => /\ stage[m] = "idle"
                         /\ draft[m] = "none"
                         /\ m \notin gone
                         /\ m \notin noted
  /\ holder[m] # Free => /\ row[m] = "pending"
                         /\ stage[m] # "idle"
                         /\ draft[m] # "none"
  /\ stage[m] = "claimed" => m \notin gone /\ m \notin noted /\ draft[m] = "sending"
  /\ stage[m] = "out"     => m \in gone  /\ m \notin noted /\ draft[m] = "sending"
  /\ stage[m] = "tried"   => draft[m] = "sending"
  /\ m \in unheard    => stage[m] \in {"tried", "done", "idle"} /\ m \notin gone /\ row[m] \notin {"none", "sent", "cancelled"}
  /\ m \in unheard /\ row[m] = "pending" => holder[m] # Free
  /\ m \in noted      => m \in gone
  /\ draft[m] = "sent"    => m \in gone
  /\ draft[m] = "failed"  => m \notin gone

(* The copies that left, counted against the status that stands for them.  *)
CopyInv(m) ==
  /\ row[m] \in {"none", "pending", "failed", "cancelled"} =>
       /\ m \notin gone \cup unheard => copies[m] = undone[m]
       /\ m \in gone \cup unheard => copies[m] = undone[m] + 1
       /\ thread[m] = 0
  /\ row[m] = "sent" => copies[m] = undone[m] + 1 /\ thread[m] \in {0, 1}
  /\ row[m] = "sending" => \/ copies[m] = undone[m] /\ thread[m] = 0
                           \/ copies[m] = undone[m] + 1 /\ thread[m] \in {0, 1}

IInv == TypeOK /\ \A m \in Messages : LockInv(m) /\ CopyInv(m)

LEMMA InitIInv == Init => IInv
  BY SweepsAssumption, CrashAssumption DEF Init, IInv, TypeOK, LockInv, CopyInv, RowStatus, DraftStatus, Stage

LEMMA StepIInv == IInv /\ [Next]_vars => IInv'
<1> SUFFICES ASSUME IInv, [Next]_vars PROVE IInv'
  OBVIOUS
<1> USE SweepsAssumption, CrashAssumption DEF IInv, TypeOK, LockInv, CopyInv, RowStatus, DraftStatus, Stage
<1>1. ASSUME NEW m \in Messages, Schedule(m) PROVE IInv'
  BY <1>1 DEF Schedule
<1>2. ASSUME NEW m \in Messages, ComesDue(m) PROVE IInv'
  BY <1>2 DEF ComesDue
<1>3. ASSUME NEW m \in Messages, Cancel(m) PROVE IInv'
  BY <1>3 DEF Cancel
<1>4. ASSUME NEW s \in Sweeps, Claim(s) PROVE IInv'
  BY <1>4 DEF Claim, Claimable
<1>5. ASSUME NEW s \in Sweeps, NEW m \in Messages, SendAccepted(s, m) PROVE IInv'
  BY <1>5 DEF SendAccepted, Held
<1>6. ASSUME NEW s \in Sweeps, NEW m \in Messages, SendRefused(s, m) PROVE IInv'
  BY <1>6 DEF SendRefused, Held
<1>12. ASSUME NEW s \in Sweeps, NEW m \in Messages, SendUnanswered(s, m) PROVE IInv'
  BY <1>12 DEF SendUnanswered, Held
<1>7. ASSUME NEW s \in Sweeps, NEW m \in Messages, Record(s, m) PROVE IInv'
  BY <1>7 DEF Record, Held
<1>8. ASSUME NEW s \in Sweeps, NEW m \in Messages, Mark(s, m) PROVE IInv'
  BY <1>8 DEF Mark, Held
<1>9. ASSUME NEW s \in Sweeps, Commit(s) PROVE IInv'
  BY <1>9 DEF Commit, End, Held
<1>10. ASSUME NEW s \in Sweeps, Crash(s) PROVE IInv'
  <2>1. TypeOK'
    BY <1>10 DEF Crash, End, Held
  <2>2. ASSUME NEW m \in Messages PROVE LockInv(m)' /\ CopyInv(m)'
    <3>1. CASE holder[m] = s
      <4>1. LockInv(m)'
        BY <1>10, <3>1 DEF Crash, End, Held
      <4>2. row[m] = "pending" /\ row'[m] = "pending" /\ thread'[m] = 0 /\ m \notin gone' \cup unheard'
        BY <1>10, <3>1 DEF Crash, End, Held
      <4>3. copies'[m] = undone'[m]
        <5>1. CASE m \in gone \cup unheard
          BY <1>10, <3>1, <4>2, <5>1 DEF Crash
        <5>2. CASE m \notin gone \cup unheard
          BY <1>10, <3>1, <4>2, <5>2 DEF Crash
        <5> QED
          BY <5>1, <5>2
      <4> QED
        BY <4>1, <4>2, <4>3
    <3>2. CASE holder[m] # s
      BY <1>10, <3>2 DEF Crash, End, Held
    <3> QED
      BY <3>1, <3>2
  <2> QED
    BY <2>1, <2>2
<1>11. CASE UNCHANGED vars
  BY <1>11 DEF vars
<1> QED
  BY <1>1, <1>2, <1>3, <1>4, <1>5, <1>6, <1>7, <1>8, <1>9, <1>10, <1>11, <1>12 DEF Next, Sweep

THEOREM Inductive == Spec => []IInv
<1>1. Init => IInv
  BY InitIInv
<1>2. IInv /\ [Next]_vars => IInv'
  BY StepIInv
<1> QED
  BY <1>1, <1>2, PTL DEF Spec

(* Every variable keeps its type, for every instance. *)
THEOREM TypeCorrect == Spec => []TypeOK
<1>1. IInv => TypeOK
  BY DEF IInv
<1> QED
  BY <1>1, Inductive, PTL

(* However sweeps, cancels, failed records and crashes interleave, a       *)
(* message leaves again only after the sweep that sent it was undone.      *)
THEOREM OneCopyPerCommittedSweep == Spec => []TwiceOnlyIfUndone
<1>1. IInv => TwiceOnlyIfUndone
  BY DEF IInv, TypeOK, RowStatus, CopyInv, TwiceOnlyIfUndone
<1> QED
  BY <1>1, Inductive, PTL

(* The final status of a row agrees with what left for the customer: a row *)
(* marked failed had no copy that stands, or one whose answer was lost.    *)
THEOREM RowsEndAsTheyWent == Spec => []EndsAsItWent
<1>1. IInv => EndsAsItWent
  BY DEF IInv, TypeOK, RowStatus, LockInv, CopyInv, EndsAsItWent, Kept
<1> QED
  BY <1>1, Inductive, PTL

(* The thread shows no message twice, and none that may leave again.       *)
THEOREM TheThreadIsTrue == Spec => []ThreadIsTrue
<1>1. IInv => ThreadIsTrue
  BY DEF IInv, TypeOK, RowStatus, CopyInv, ThreadIsTrue, Kept
<1> QED
  BY <1>1, Inductive, PTL

(* Only a row that is new or waiting changes its status: a sweep commits   *)
(* only rows that were 'pending' while it held their locks.                *)
THEOREM DecisionsStand == Spec => DecidedForGood
<1> DEFINE Stands == \A m \in Messages : row[m] \notin {"none", "pending"} => row'[m] = row[m]
<1>1. IInv /\ [Next]_vars => [Stands]_vars
  <2> SUFFICES ASSUME IInv, Next PROVE Stands
    OBVIOUS
  <2> USE DEF IInv, TypeOK, LockInv
  <2>1. ASSUME NEW m \in Messages, Schedule(m) \/ ComesDue(m) \/ Cancel(m) PROVE Stands
    BY <2>1 DEF Schedule, ComesDue, Cancel
  <2>2. ASSUME NEW s \in Sweeps, Claim(s) \/ Crash(s) PROVE Stands
    BY <2>2 DEF Claim, Crash
  <2>3. ASSUME NEW s \in Sweeps, NEW m \in Messages,
               SendAccepted(s, m) \/ SendUnanswered(s, m) \/ SendRefused(s, m) \/ Record(s, m) \/ Mark(s, m)
        PROVE  Stands
    BY <2>3 DEF SendAccepted, SendUnanswered, SendRefused, Record, Mark
  <2>4. ASSUME NEW s \in Sweeps, Commit(s) PROVE Stands
    BY <2>4, SweepsAssumption DEF Commit
  <2> QED
    BY <2>1, <2>2, <2>3, <2>4 DEF Next, Sweep
<1> QED
  BY <1>1, Inductive, PTL DEF Spec, DecidedForGood

-----------------------------------------------------------------------------
(* The refinement of OnceOnly.                                             *)

LEMMA OnceInit == Init => Once!Init
  BY DEF Init, Once!Init, Seen

(* Each step leaves the abstract state alone or is one of its steps.       *)
LEMMA OnceStep ==
  ASSUME IInv, [Next]_vars
  PROVE  [Once!Next]_(Once!vars)
<1> DEFINE left     == [m \in Messages |-> copies[m] - undone[m]]
           decision == [m \in Messages |-> Seen(m)]
<1> USE DEF IInv, TypeOK
<1>1. ASSUME NEW m \in Messages, Schedule(m) PROVE UNCHANGED Once!vars
  BY <1>1 DEF Schedule, Once!vars, Seen
<1>2. ASSUME NEW m \in Messages, ComesDue(m) PROVE UNCHANGED Once!vars
  BY <1>2 DEF ComesDue, Once!vars, Seen
<1>3. ASSUME NEW m \in Messages, Cancel(m) PROVE Once!Decide
  <2>1. m \notin gone
    BY <1>3 DEF Cancel, LockInv
  <2>2. left[m] = 0
    BY <1>3, <2>1 DEF Cancel, CopyInv, LockInv
  <2>3. decision' \in [Messages -> Once!Decision] /\ left' = left /\ unheard' = unheard
    BY <1>3 DEF Cancel, Seen, Once!Decision, RowStatus
  <2>4. ASSUME NEW n \in Messages, decision'[n] # decision[n]
        PROVE  decision[n] = "open" /\ Once!Truthful(n, decision'[n])
    BY <1>3, <2>2, <2>4 DEF Cancel, Seen, Once!Truthful
  <2> QED
    BY <2>3, <2>4 DEF Once!Decide, Once!Decisions
<1>4. ASSUME NEW s \in Sweeps, Claim(s) PROVE UNCHANGED Once!vars
  BY <1>4 DEF Claim, Once!vars, Seen
<1>5. ASSUME NEW s \in Sweeps, NEW m \in Messages, SendAccepted(s, m) \/ SendUnanswered(s, m)
      PROVE  Once!Leave(m)
  <2>1. row[m] = "pending" /\ m \notin gone \cup unheard
    BY <1>5, SweepsAssumption DEF SendAccepted, SendUnanswered, Held, LockInv
  <2>2. copies[m] = undone[m]
    BY <2>1 DEF CopyInv
  <2>3. copies' = [copies EXCEPT ![m] = @ + 1] /\ undone' = undone
    BY <1>5 DEF SendAccepted, SendUnanswered
  <2>4. left[m] = 0 /\ left' = [left EXCEPT ![m] = 1]
    <3>1. \A n \in Messages : copies[n] \in Nat /\ undone[n] \in Nat
      OBVIOUS
    <3>2. left'[m] = 1 /\ \A n \in Messages \ {m} : left'[n] = left[n]
      BY <2>2, <2>3, <3>1
    <3>3. left[m] = 0
      BY <2>2, <3>1
    <3>4. DOMAIN left = Messages /\ left' = [n \in Messages |-> left'[n]]
      OBVIOUS
    <3>5. left' = [n \in Messages |-> IF n = m THEN 1 ELSE left[n]]
      BY <3>2, <3>4
    <3> HIDE DEF left
    <3> QED
      BY <3>3, <3>4, <3>5
  <2>5. decision[m] = "open" /\ decision' = decision /\ unheard' \in {unheard, unheard \cup {m}}
    BY <1>5, <2>1 DEF SendAccepted, SendUnanswered, Seen
  <2> QED
    BY <2>4, <2>5 DEF Once!Leave
<1>6. ASSUME NEW s \in Sweeps, NEW m \in Messages, SendRefused(s, m) \/ Record(s, m) \/ Mark(s, m)
      PROVE  UNCHANGED Once!vars
  BY <1>6 DEF SendRefused, Record, Mark, Once!vars, Seen
<1>7. ASSUME NEW s \in Sweeps, Commit(s) PROVE Once!Decide
  <2>1. decision' \in [Messages -> Once!Decision] /\ left' = left /\ unheard' = unheard
    BY <1>7 DEF Commit, Seen, Once!Decision, RowStatus, DraftStatus
  <2>2. ASSUME NEW n \in Messages, decision'[n] # decision[n]
        PROVE  decision[n] = "open" /\ Once!Truthful(n, decision'[n])
    <3>1. holder[n] = s /\ row'[n] = draft[n]
      BY <1>7, <2>2 DEF Commit, Seen
    <3>2. row[n] = "pending"
      BY <3>1, SweepsAssumption DEF LockInv
    <3>3. draft[n] = "sent" => left[n] = 1
      BY <3>2 DEF LockInv, CopyInv
    <3>4. draft[n] = "failed" => left[n] = 0 \/ n \in unheard
      BY <3>2 DEF LockInv, CopyInv
    <3>5. draft[n] \in {"sending", "sent", "failed"}
      BY <3>1, SweepsAssumption DEF LockInv, DraftStatus
    <3> QED
      BY <3>1, <3>2, <3>3, <3>4, <3>5 DEF Seen, Once!Truthful
  <2> QED
    BY <2>1, <2>2 DEF Once!Decide, Once!Decisions
(* What a dying sweep undoes was claimed from 'pending' rows: it is open.  *)
<1>8. ASSUME NEW s \in Sweeps, Crash(s) PROVE Once!Forget
  <2> DEFINE F == {m \in Messages : holder[m] = s /\ m \in gone \cup unheard}
  <2>1. MaxCrashes > 0 /\ UNCHANGED row
    BY <1>8, CrashAssumption DEF Crash
  <2>2. \A m \in F : row[m] = "pending" /\ copies[m] = undone[m] + 1
    BY SweepsAssumption DEF LockInv, CopyInv
  <2>3. copies' = copies /\ \A m \in Messages : undone'[m] = IF m \in F THEN undone[m] + 1 ELSE undone[m]
    BY <1>8 DEF Crash, Held
  <2>4. left' = [m \in Messages |-> IF m \in F THEN 0 ELSE left[m]]
    <3>1. ASSUME NEW m \in Messages PROVE left'[m] = IF m \in F THEN 0 ELSE left[m]
      <4>1. copies[m] \in Nat /\ undone[m] \in Nat
        OBVIOUS
      <4>2. CASE m \in F
        BY <2>2, <2>3, <4>1, <4>2
      <4>3. CASE m \notin F
        BY <2>3, <4>1, <4>3
      <4> QED
        BY <4>2, <4>3
    <3> QED
      BY <3>1
  <2>5. decision' = decision /\ \A m \in F : decision[m] = "open"
    BY <2>1, <2>2 DEF Seen
  <2>6. unheard' = unheard \ F
    BY <1>8 DEF Crash, Held
  <2> QED
    <3>1. decision \in [Messages -> Once!Decision]
      BY DEF Seen, Once!Decision, RowStatus
    <3> QED
      BY <2>1, <2>4, <2>5, <2>6, <3>1, ZenonT(60) DEF Once!Forget, Once!Decisions
<1>9. CASE UNCHANGED vars
  BY <1>9 DEF vars, Once!vars, Seen
<1> QED
  BY <1>1, <1>2, <1>3, <1>4, <1>5, <1>6, <1>7, <1>8, <1>9 DEF Next, Sweep, Once!Next

(* For any number of messages and of sweeps that overlap and die: of the   *)
(* copies that were not undone a scheduled message has one at most, it     *)
(* leaves before it is decided, and the decision on its row is true but    *)
(* for one marked failed because the channel's answer was lost.  While     *)
(* no worker dies no copy is undone, and the promise is plain once.        *)
THEOREM SweepsAreOnceOnly == Spec => ImplementsOnceOnly
<1>1. Init => Once!Init
  BY OnceInit
<1>2. IInv /\ [Next]_vars => [Once!Next]_(Once!vars)
  BY OnceStep
<1> QED
  BY <1>1, <1>2, Inductive, PTL DEF Spec, ImplementsOnceOnly, Once!Spec

=============================================================================
