------------------------- MODULE ScheduledMessages -------------------------
(***************************************************************************)
(* Messages written now and sent later.                                    *)
(*                                                                         *)
(* A repeating job sweeps the due rows of scheduled_messages: it claims    *)
(* them ('pending' -> 'sending'), sends each one on its conversation's     *)
(* channel, records it on the thread, and marks the row.  The whole sweep  *)
(* is ONE database transaction; recording and marking are savepoints in    *)
(* it.  Two sweeps can overlap (a stalled job, two workers during a        *)
(* deploy), a person can cancel, and a worker can die at any point, which  *)
(* undoes everything the sweep wrote and nothing it sent.  The channel's   *)
(* answer can be lost: the message has left, and the sweep takes the send  *)
(* for refused.                                                            *)
(***************************************************************************)
EXTENDS Integers, FiniteSets

CONSTANTS Messages,      \* the rows a person can schedule
          Sweeps,        \* sweeps that may overlap
          Free,          \* "no sweep holds this row's lock"
          Limit,         \* claimDueScheduledMessages(limit)
          MaxCrashes     \* bound: how many sweeps may die

ASSUME SweepsAssumption == Free \notin Sweeps
ASSUME LimitAssumption  == Limit \in Nat \ {0}
ASSUME CrashAssumption  == MaxCrashes \in Nat

VARIABLES
  row,      \* committed status of each row ("none": not scheduled yet)
  due,      \* rows whose send_at has passed
  holder,   \* the sweep whose open transaction locks the row
  stage,    \* how far the holder's loop is with the row
  draft,    \* the status the holder has written and not committed
  gone,     \* progress.wentOut: rows whose holder's send was accepted
  noted,    \* rows whose holder's savepoint put them on their thread
  thread,   \* thread entries committed for the message
  copies,   \* history: copies that reached the channel
  undone,   \* history: copies sent by a transaction that was rolled back
  unheard,  \* history: rows one of whose copies left unanswered, and stands
  crashes   \* sweeps that have died so far

vars == <<row, due, holder, stage, draft, gone, noted, thread, copies, undone, unheard, crashes>>

RowStatus   == {"none", "pending", "sending", "sent", "failed", "cancelled"}
DraftStatus == {"none", "sending", "sent", "failed"}
Stage       == {"idle", "claimed", "out", "tried", "done"}

TypeOK ==
  /\ row    \in [Messages -> RowStatus]
  /\ due    \subseteq Messages
  /\ holder \in [Messages -> Sweeps \cup {Free}]
  /\ stage  \in [Messages -> Stage]
  /\ draft  \in [Messages -> DraftStatus]
  /\ gone   \subseteq Messages
  /\ noted  \subseteq Messages
  /\ thread \in [Messages -> Nat]
  /\ copies \in [Messages -> Nat]
  /\ undone \in [Messages -> Nat]
  /\ unheard \subseteq Messages
  /\ crashes \in 0..MaxCrashes

Init ==
  /\ row    = [m \in Messages |-> "none"]
  /\ due    = {}
  /\ holder = [m \in Messages |-> Free]
  /\ stage  = [m \in Messages |-> "idle"]
  /\ draft  = [m \in Messages |-> "none"]
  /\ gone   = {}
  /\ noted  = {}
  /\ thread = [m \in Messages |-> 0]
  /\ copies = [m \in Messages |-> 0]
  /\ undone = [m \in Messages |-> 0]
  /\ unheard = {}
  /\ crashes = 0

(* The rows locked by sweep s's open transaction; {} when none is open.    *)
Held(s) == {m \in Messages : holder[m] = s}

-----------------------------------------------------------------------------
(* What a person does, each in a request of its own.                       *)

Schedule(m) ==
  /\ row[m] = "none"
  /\ row' = [row EXCEPT ![m] = "pending"]
  /\ UNCHANGED <<due, holder, stage, draft, gone, noted, thread, copies, undone, unheard, crashes>>

(* The clock passes the row's send_at. *)
ComesDue(m) ==
  /\ row[m] = "pending"
  /\ m \notin due
  /\ due' = due \cup {m}
  /\ UNCHANGED <<row, holder, stage, draft, gone, noted, thread, copies, undone, unheard, crashes>>

(* The update waits for the row's lock, then looks at the status again. *)
Cancel(m) ==
  /\ holder[m] = Free
  /\ row[m] = "pending"
  /\ row' = [row EXCEPT ![m] = "cancelled"]
  /\ UNCHANGED <<due, holder, stage, draft, gone, noted, thread, copies, undone, unheard, crashes>>

-----------------------------------------------------------------------------
(* The sweep.                                                              *)

(* MUTANT: rows stuck in 'sending' are swept up again. *)
ClaimableWithStuck ==
  {m \in Messages : row[m] \in {"pending", "sending"} /\ m \in due /\ holder[m] = Free}

(* select ... where status = 'pending' and send_at <= now() for update     *)
(* skip locked                                                             *)
Claimable == {m \in Messages : row[m] = "pending" /\ m \in due /\ holder[m] = Free}

(* MUTANT: a sweep that only starts with a full batch. *)
ClaimFullBatchesOnly(s) ==
  /\ Held(s) = {}
  /\ \E batch \in SUBSET Claimable :
       /\ Cardinality(batch) = Limit
       /\ holder' = [m \in Messages |-> IF m \in batch THEN s ELSE holder[m]]
       /\ stage'  = [m \in Messages |-> IF m \in batch THEN "claimed" ELSE stage[m]]
       /\ draft'  = [m \in Messages |-> IF m \in batch THEN "sending" ELSE draft[m]]
  /\ UNCHANGED <<row, due, gone, noted, thread, copies, undone, unheard, crashes>>

Claim(s) ==
  /\ Held(s) = {}
  /\ \E batch \in SUBSET Claimable :
       /\ batch # {}
       /\ Cardinality(batch) <= Limit
       /\ batch = Claimable \/ Cardinality(batch) = Limit
       /\ holder' = [m \in Messages |-> IF m \in batch THEN s ELSE holder[m]]
       /\ stage'  = [m \in Messages |-> IF m \in batch THEN "claimed" ELSE stage[m]]
       /\ draft'  = [m \in Messages |-> IF m \in batch THEN "sending" ELSE draft[m]]
  /\ UNCHANGED <<row, due, gone, noted, thread, copies, undone, unheard, crashes>>

(* The loop handles one message at a time. *)
Between(s) == \A m \in Held(s) : stage[m] \in {"claimed", "done"}

(* The channel takes the message. *)
SendAccepted(s, m) ==
  /\ m \in Held(s)
  /\ stage[m] = "claimed"
  /\ Between(s)
  /\ stage'  = [stage EXCEPT ![m] = "out"]
  /\ gone'   = gone \cup {m}
  /\ copies' = [copies EXCEPT ![m] = @ + 1]
  /\ UNCHANGED <<row, due, holder, draft, noted, thread, undone, unheard, crashes>>

(* The channel takes the message and its answer never arrives: the call    *)
(* throws like a refusal, and wentOut stays false.                         *)
SendUnanswered(s, m) ==
  /\ m \in Held(s)
  /\ stage[m] = "claimed"
  /\ Between(s)
  /\ stage'   = [stage EXCEPT ![m] = "tried"]
  /\ copies'  = [copies EXCEPT ![m] = @ + 1]
  /\ unheard' = unheard \cup {m}
  /\ UNCHANGED <<row, due, holder, draft, gone, noted, thread, undone, crashes>>

(* The conversation is gone, or the channel refuses; the savepoint ends. *)
SendRefused(s, m) ==
  /\ m \in Held(s)
  /\ stage[m] = "claimed"
  /\ Between(s)
  /\ stage' = [stage EXCEPT ![m] = "tried"]
  /\ UNCHANGED <<row, due, holder, draft, gone, noted, thread, copies, undone, unheard, crashes>>

(* MUTANT: the thread is written in a transaction of its own. *)
RecordOutsideTheSweep(s, m) ==
  /\ m \in Held(s)
  /\ stage[m] = "out"
  /\ \E saved \in {0, 1} : thread' = [thread EXCEPT ![m] = @ + saved]
  /\ stage' = [stage EXCEPT ![m] = "tried"]
  /\ UNCHANGED <<row, due, holder, draft, gone, noted, copies, undone, unheard, crashes>>

(* The outbound row, the AI pause and the handoff, in the same savepoint:  *)
(* all of them are saved or, if one fails, none is.                        *)
Record(s, m) ==
  /\ m \in Held(s)
  /\ stage[m] = "out"
  /\ noted' \in {noted, noted \cup {m}}
  /\ stage' = [stage EXCEPT ![m] = "tried"]
  /\ UNCHANGED <<row, due, holder, draft, gone, thread, copies, undone, unheard, crashes>>

(* Sent if it is known to have gone out, failed if not; a mark that cannot *)
(* be written leaves the row 'sending'.                                    *)
Mark(s, m) ==
  /\ m \in Held(s)
  /\ stage[m] = "tried"
  /\ \/ draft' = [draft EXCEPT ![m] = IF m \in gone THEN "sent" ELSE "failed"]
     \/ draft' = draft
  /\ stage' = [stage EXCEPT ![m] = "done"]
  /\ UNCHANGED <<row, due, holder, gone, noted, thread, copies, undone, unheard, crashes>>

(* The transaction of s ends: its locks are released, its drafts are gone. *)
End(s) ==
  /\ holder' = [m \in Messages |-> IF holder[m] = s THEN Free   ELSE holder[m]]
  /\ stage'  = [m \in Messages |-> IF holder[m] = s THEN "idle" ELSE stage[m]]
  /\ draft'  = [m \in Messages |-> IF holder[m] = s THEN "none" ELSE draft[m]]
  /\ gone'   = gone \ Held(s)
  /\ noted'  = noted \ Held(s)

(* The end of withAllTenants: the sweep's transaction commits. *)
Commit(s) ==
  /\ Held(s) # {}
  /\ \A m \in Held(s) : stage[m] = "done"
  /\ row'    = [m \in Messages |-> IF holder[m] = s THEN draft[m] ELSE row[m]]
  /\ thread' = [m \in Messages |-> IF holder[m] = s /\ m \in noted THEN thread[m] + 1 ELSE thread[m]]
  /\ End(s)
  /\ UNCHANGED <<due, copies, undone, unheard, crashes>>

(* The worker dies, or the commit is refused: the claim and every mark of  *)
(* the sweep are undone, and the next sweep finds the rows 'pending'.      *)
Crash(s) ==
  /\ crashes < MaxCrashes
  /\ Held(s) # {}
  /\ crashes' = crashes + 1
  /\ undone'  = [m \in Messages |-> IF holder[m] = s /\ m \in gone \cup unheard THEN undone[m] + 1 ELSE undone[m]]
  /\ unheard' = unheard \ Held(s)
  /\ End(s)
  /\ UNCHANGED <<row, due, thread, copies>>

-----------------------------------------------------------------------------
Sweep(s) == \/ Claim(s)
            \/ \E m \in Messages : \/ SendAccepted(s, m)
                                   \/ SendUnanswered(s, m)
                                   \/ SendRefused(s, m)
                                   \/ Record(s, m)
                                   \/ Mark(s, m)
            \/ Commit(s)

Next == \/ \E m \in Messages : Schedule(m) \/ ComesDue(m) \/ Cancel(m)
        \/ \E s \in Sweeps : Sweep(s) \/ Crash(s)

Spec == Init /\ [][Next]_vars

(* A sweep is queued every minute and an open one runs to its end. *)
Fairness == \A s \in Sweeps : WF_vars(Sweep(s))

FairSpec == Spec /\ Fairness

-----------------------------------------------------------------------------
(* A second copy of a scheduled message leaves only when the sweep that    *)
(* sent the first was undone: overlapping sweeps, a cancel, a record or a  *)
(* mark that fails never send twice.                                       *)
TwiceOnlyIfUndone == \A m \in Messages : copies[m] <= undone[m] + 1

(* How a row ends agrees with what reached the customer, as far as the     *)
(* sweep was told.  Copies sent by a committed sweep: one for a row marked *)
(* sent, none for a row cancelled or still waiting, and none for one       *)
(* marked failed unless the channel's answer was lost.                     *)
Kept(m) == copies[m] - undone[m]
EndsAsItWent ==
  \A m \in Messages :
    /\ row[m] = "sent" => Kept(m) = 1
    /\ row[m] \in {"none", "cancelled"} => Kept(m) = 0
    /\ row[m] = "failed" => Kept(m) = IF m \in unheard THEN 1 ELSE 0
    /\ row[m] = "pending" /\ holder[m] = Free => Kept(m) = 0

(* The thread shows a scheduled message once at most, and only one whose   *)
(* copy left in the sweep that recorded it; a committed thread entry is    *)
(* never left with a row that will be sent again.                          *)
ThreadIsTrue ==
  \A m \in Messages :
    /\ thread[m] <= 1
    /\ thread[m] = 1 => row[m] \in {"sent", "sending"} /\ Kept(m) = 1

(* A row that has left 'pending' never returns to it: nothing that was     *)
(* decided is tried again, cancelled or sent a second time.                *)
DecidedForGood ==
  [][\A m \in Messages : row[m] \notin {"none", "pending"} => row'[m] = row[m]]_vars

(* A message that has come due is decided, however the sweeps overlap and  *)
(* whatever the channel answers, once the workers stop dying.              *)
DueIsDecided ==
  \A m \in Messages : (m \in due /\ row[m] = "pending") ~> (row[m] # "pending")

(* A row as the promise of OnceOnly sees it: what a sweep has drafted is   *)
(* not yet a decision; a row left 'sending' is one nobody could write.     *)
Seen(m) == CASE row[m] \in {"none", "pending"} -> "open"
             [] row[m] = "sending"             -> "unknown"
             [] OTHER                          -> row[m]

Once == INSTANCE OnceOnly WITH MayForget <- MaxCrashes > 0,
                               left      <- [m \in Messages |-> copies[m] - undone[m]],
                               decision  <- [m \in Messages |-> Seen(m)]

(* The sweeps keep the promise of OnceOnly: of the copies that were not    *)
(* undone a message has one at most, it leaves before it is decided, and   *)
(* the decision is true, but for a row marked failed because the channel   *)
(* took the message and its answer was lost.                               *)
ImplementsOnceOnly == Once!Spec

=============================================================================
