------------------------- MODULE TenantTransaction -------------------------
(***************************************************************************)
(* One piece of work inside a business's transaction: withTenant,          *)
(* withSavepoint, withRecovery, acrossEveryBusiness and withServingTenant  *)
(* on the one connection they share.                                       *)
(*                                                                         *)
(* PostgreSQL refuses everything after a statement that failed, and        *)
(* answers the commit of such a transaction with ROLLBACK and no error.    *)
(* Code that catches the failure and goes on has lost what it wrote; the   *)
(* blocks here are what lets it catch one safely, and the record kept of   *)
(* the transaction is what tells a loss.                                   *)
(*                                                                         *)
(* The record is kept of the work's own statements.  What a block says to  *)
(* the connection itself (SAVEPOINT, RELEASE, the switch of the business   *)
(* and the check before it) goes past it, and can fail like any other.     *)
(*                                                                         *)
(* The work runs as one or two branches (the members of a Promise.all),    *)
(* each inside blocks it opens and ends; what it reads and writes, what    *)
(* fails and what is caught is left open.                                  *)
(***************************************************************************)
EXTENDS Integers, FiniteSets

CONSTANTS Branches,
          MaxDepth,     \* bound: blocks inside blocks
          MaxSteps,     \* bound: statements made and blocks opened
          MaxTroubles   \* bound: failures

ASSUME ConstantsAssumption ==
  MaxDepth \in Nat /\ MaxSteps \in Nat /\ MaxTroubles \in Nat /\ Branches # {} /\ "nobody" \notin Branches

VARIABLES
  \* the connection
  state,    \* well | broken (refuses everything) | dead
  live,     \* the writes the transaction holds
  setting,  \* app.current_org, and whether app.tenant_scope is 'all'
  snap,     \* its savepoints, by number: a stack, with what each goes back to
  db,       \* the writes committed
  \* the code
  mode,     \* each branch: runs | waits (for its turn) | throws | ended | failed
  depth,    \* how many blocks it is in
  frame,    \* what each of them is, and remembers
  turn,     \* whose outermost block is open
  health,   \* the record of the transaction
  outcome,  \* open | ok | error | of a commit answered ROLLBACK: undone (a request
            \* is told so) | lost (a job is told it is done; the log says it is not)
  steps, troubles,
  \* history
  mine,     \* what each block, and each branch outside, was told is written
  lapsed,   \* where a write was refused because of an earlier failure
  spare,    \* writes of a block that threw and was not undone
  ownFailed \* a block's own statement failed, and no ROLLBACK TO has mended it

connVars == <<state, live, setting, snap>>
codeVars == <<mode, depth, frame, turn, health>>
history  == <<mine, lapsed, spare, ownFailed>>
vars     == <<connVars, db, codeVars, outcome, steps, troubles, history>>

Kinds   == {"savepoint", "recovery", "widen", "serve"}
Levels  == 0..MaxDepth
NoSave  == [known |-> FALSE, live |-> {}, setting |-> [org |-> "owner", all |-> FALSE]]
Blank   == [wrote |-> FALSE, refused |-> FALSE, failed |-> FALSE]
Own     == [org |-> "owner", all |-> FALSE]
NoFrame == [kind |-> "none", name |-> 0, before |-> Blank]

Init ==
  /\ state = "well" /\ live = {} /\ setting = Own
  /\ snap = [n \in 1..MaxSteps |-> NoSave]
  /\ db = {}
  /\ mode = [b \in Branches |-> "runs"] /\ depth = [b \in Branches |-> 0]
  /\ frame = [b \in Branches |-> [d \in Levels |-> NoFrame]]
  /\ turn = "nobody" /\ health = Blank
  /\ outcome = "open" /\ steps = 0 /\ troubles = 0
  /\ mine = [b \in Branches |-> [d \in Levels |-> {}]]
  /\ lapsed = [b \in Branches |-> [d \in Levels |-> FALSE]]
  /\ spare = {} /\ ownFailed = FALSE

Top(b)     == frame[b][depth[b]]
In(b, k)   == \E d \in 1..depth[b] : frame[b][d].kind = k
Others(b)  == Branches \ {b}
Runs(b)    == outcome = "open" /\ mode[b] = "runs"
Throws(b)  == outcome = "open" /\ mode[b] = "throws"
Step       == steps < MaxSteps /\ steps' = steps + 1
Trouble    == troubles < MaxTroubles /\ troubles' = troubles + 1
Throw(b)   == mode' = [mode EXCEPT ![b] = "throws"]

(* Does the connection answer as the business the code believes it is, and *)
(* for every business only while that is being asked?                      *)
AsItsBusiness(b) == setting.org = IF In(b, "serve") THEN "serving" ELSE "owner"
Widened          == \E b \in Branches : In(b, "widen")

-----------------------------------------------------------------------------
(* Statements that write, or fail; they are numbered, and so are the       *)
(* savepoints.  A read that succeeds changes nothing.                      *)

(* A sibling's plain statement lands in whatever block is open: code keeps *)
(* its writes out of a Promise.all beside blocks (client.ts, "SAVEPOINTS   *)
(* TAKE TURNS"); its reads may be there, and see what the block sees.      *)
Beside(b) == depth[b] = 0 /\ \E k \in Others(b) : depth[k] > 0

Write(b) ==
  /\ Runs(b) /\ state = "well" /\ ~Beside(b) /\ Step
  /\ live' = live \cup {steps + 1}
  /\ mine' = [mine EXCEPT ![b][depth[b]] = @ \cup {steps + 1}]
  /\ health' = [health EXCEPT !.wrote = TRUE]
  /\ UNCHANGED <<state, setting, snap, db, mode, depth, frame, turn, outcome, troubles, lapsed, spare, ownFailed>>

(* A statement fails, and with it the transaction.                         *)
Fails(b) ==
  /\ Runs(b) /\ state = "well" /\ Step /\ Trouble
  /\ state' = "broken"
  /\ health' = [health EXCEPT !.failed = TRUE]
  /\ Throw(b)
  /\ UNCHANGED <<live, setting, snap, db, depth, frame, turn, outcome, history>>

(* MUTANT: a refusal is one more failure, already noted.                   *)
RefusedUnnoted(b, isWrite) ==
  /\ Runs(b) /\ state = "broken" /\ (isWrite => ~Beside(b)) /\ Step
  /\ lapsed' = [lapsed EXCEPT ![b][depth[b]] = @ \/ isWrite]
  /\ Throw(b)
  /\ UNCHANGED <<connVars, db, depth, frame, turn, health, outcome, troubles, mine, spare, ownFailed>>

(* A statement is refused because an earlier one failed.                   *)
Refused(b, isWrite) ==
  /\ Runs(b) /\ state = "broken" /\ (isWrite => ~Beside(b)) /\ Step
  /\ health' = [health EXCEPT !.refused = @ \/ isWrite]
  /\ lapsed' = [lapsed EXCEPT ![b][depth[b]] = @ \/ isWrite]
  /\ Throw(b)
  /\ UNCHANGED <<connVars, db, depth, frame, turn, outcome, troubles, mine, spare, ownFailed>>

Unanswered(b) ==
  /\ Runs(b) /\ state = "dead" /\ Step
  /\ health' = [health EXCEPT !.failed = TRUE]
  /\ Throw(b)
  /\ UNCHANGED <<connVars, db, depth, frame, turn, outcome, troubles, history>>

(* Something else throws: a model, Meta, Redis, the code itself (and the   *)
(* check of withServingTenant, when the two businesses share no number).   *)
ThrowsItself(b) ==
  /\ Runs(b) /\ Trouble
  /\ Throw(b)
  /\ UNCHANGED <<connVars, db, depth, frame, turn, health, outcome, steps, history>>

Catches(b) ==
  /\ Throws(b)
  /\ mode' = [mode EXCEPT ![b] = "runs"]
  /\ UNCHANGED <<connVars, db, depth, frame, turn, health, outcome, steps, troubles, history>>

ConnectionDies ==
  /\ outcome = "open" /\ state # "dead" /\ Trouble
  /\ state' = "dead"
  /\ UNCHANGED <<live, setting, snap, db, codeVars, outcome, steps, history>>

-----------------------------------------------------------------------------
(* Blocks.                                                                 *)

(* inTurn: an outermost block waits for its siblings, one inside a block   *)
(* does not.  The switch of withServingTenant takes no turn: it is used    *)
(* with no sibling about.                                                  *)
TakesTurn(k) == k # "serve"

(* MUTANT: blocks open side by side.                                       *)
MayEnterAtOnce(b, k) ==
  /\ k = "serve" => /\ ~In(b, "serve") /\ ~In(b, "widen")
                    /\ \A o \in Others(b) : mode[o] \in {"ended", "failed"}
  /\ k = "widen" => ~In(b, "widen")

MayEnter(b, k) ==
  /\ depth[b] = 0 /\ TakesTurn(k) => turn = "nobody"
  /\ k = "serve" => /\ ~In(b, "serve") /\ ~In(b, "widen")
                    /\ \A o \in Others(b) : mode[o] \in {"ended", "failed"}
  /\ k = "widen" => ~In(b, "widen")

Enter(b, k) ==
  /\ Runs(b) /\ depth[b] < MaxDepth /\ MayEnter(b, k) /\ Step
  /\ IF state # "well"
       THEN Throw(b) /\ UNCHANGED <<setting, snap, depth, frame, turn>>
       ELSE /\ depth' = [depth EXCEPT ![b] = @ + 1]
            /\ frame' = [frame EXCEPT ![b][depth[b] + 1] = [kind |-> k, name |-> steps + 1, before |-> health]]
            /\ IF k \in {"savepoint", "recovery"}
                 THEN snap' = [snap EXCEPT ![steps + 1] = [known |-> TRUE, live |-> live, setting |-> setting]]
                 ELSE UNCHANGED snap
            /\ setting' = [org |-> IF k = "serve" THEN "serving" ELSE setting.org,
                           all |-> setting.all \/ k = "widen"]
            /\ turn' = IF depth[b] = 0 /\ TakesTurn(k) THEN b ELSE turn
            /\ UNCHANGED mode
  /\ UNCHANGED <<state, live, db, health, outcome, troubles, history>>

(* What the block itself says to open (SAVEPOINT, set_config, the check    *)
(* that the two businesses share a number) fails: it is not open, the      *)
(* transaction is broken, and the record has nothing of it.                *)
EnteringFails(b, k) ==
  /\ Runs(b) /\ depth[b] < MaxDepth /\ MayEnter(b, k) /\ state = "well" /\ Step /\ Trouble
  /\ state' = "broken" /\ ownFailed' = TRUE
  /\ Throw(b)
  /\ UNCHANGED <<live, setting, snap, db, depth, frame, turn, health, outcome, mine, lapsed, spare>>

(* A sibling's block is open: this branch's waits.                         *)
Waits(b) ==
  /\ Runs(b) /\ depth[b] = 0 /\ turn # "nobody"
  /\ mode' = [mode EXCEPT ![b] = "waits"]
  /\ UNCHANGED <<connVars, db, depth, frame, turn, health, outcome, steps, troubles, history>>

GetsTurn(b) ==
  /\ outcome = "open" /\ mode[b] = "waits" /\ turn = "nobody"
  /\ mode' = [mode EXCEPT ![b] = "runs"]
  /\ UNCHANGED <<connVars, db, depth, frame, turn, health, outcome, steps, troubles, history>>

(* MUTANT: only a block that has gone well gives its turn back.            *)
GivesTurnIfWell(b) == turn' = IF depth[b] = 1 /\ turn = b /\ mode[b] = "runs" THEN "nobody" ELSE turn

(* The finally of inTurn, as the block is left.                            *)
GivesTurn(b) == turn' = IF depth[b] = 1 /\ turn = b THEN "nobody" ELSE turn
Pop(b) == /\ depth' = [depth EXCEPT ![b] = @ - 1] /\ GivesTurn(b)
          /\ frame' = [frame EXCEPT ![b][depth[b]] = NoFrame]

(* What the block was told is written counts for the code around it, or is *)
(* given up: and then it is undone, or it may be there all the same.       *)
Hands(b, told, refusals) ==
  /\ mine' = [mine EXCEPT ![b] = [mine[b] EXCEPT ![depth[b]] = {},
                 ![depth[b] - 1] = mine[b][depth[b] - 1] \cup IF told THEN mine[b][depth[b]] ELSE {}]]
  /\ lapsed' = [lapsed EXCEPT ![b] = [lapsed[b] EXCEPT ![depth[b]] = FALSE,
                   ![depth[b] - 1] = lapsed[b][depth[b] - 1] \/ (refusals /\ lapsed[b][depth[b]])]]

(* MUTANT: a business once served is served from then on.                  *)
PutBackScope(k) == setting' = [setting EXCEPT !.all = @ /\ k # "widen"]

(* The view is put back: current_org to the owner's, tenant_scope to none. *)
PutBack(k) == setting' = [org |-> IF k = "serve" THEN "owner" ELSE setting.org,
                          all |-> setting.all /\ k # "widen"]

(* RELEASE ends the savepoint and every one set after it.                  *)
Release(n) == snap' = [m \in 1..MaxSteps |-> IF m < n THEN snap[m] ELSE NoSave]

(* PostgreSQL knows the savepoint this block set, if it set one.           *)
Known(b) == snap[Top(b).name].known
Saves(b) == Top(b).kind \in {"savepoint", "recovery"}

(* The block ends: its savepoint is released, or the view put back.        *)
Leave(b) ==
  /\ Runs(b) /\ depth[b] > 0 /\ state = "well"
  /\ Pop(b) /\ Hands(b, TRUE, TRUE)
  /\ IF Saves(b) THEN Known(b) /\ Release(Top(b).name) /\ UNCHANGED setting
                 ELSE PutBack(Top(b).kind) /\ UNCHANGED snap
  /\ UNCHANGED <<state, live, db, mode, health, outcome, steps, troubles, spare, ownFailed>>

(* It would end, but what it has to say to the connection is refused.      *)
CannotLeave(b) == Runs(b) /\ (state # "well" \/ (Saves(b) /\ ~Known(b)))

(* MUTANT: a transaction that is healthy again has nothing to lose.        *)
RollBackToBlank(b) ==
  LET n == Top(b).name IN
  /\ state' = "well" /\ live' = snap[n].live /\ setting' = snap[n].setting
  /\ snap' = [m \in 1..MaxSteps |-> IF m <= n THEN snap[m] ELSE NoSave]
  /\ health' = Blank /\ ownFailed' = FALSE

(* ROLLBACK TO: the transaction is healthy again, without what the block   *)
(* wrote and set; the record says what it said before.                     *)
RollBackTo(b) ==
  LET n == Top(b).name IN
  /\ state' = "well" /\ live' = snap[n].live /\ setting' = snap[n].setting
  /\ snap' = [m \in 1..MaxSteps |-> IF m <= n THEN snap[m] ELSE NoSave]
  /\ health' = Top(b).before /\ ownFailed' = FALSE

Undo(b) ==
  /\ RollBackTo(b)
  /\ Hands(b, FALSE, FALSE) /\ UNCHANGED spare

(* What the block wrote is left to the transaction.                        *)
LeaveBehind(b) == Hands(b, FALSE, TRUE) /\ spare' = spare \cup mine[b][depth[b]]

(* An error leaves the block, or is met by leaving it.                     *)
Unwind(b) ==
  /\ depth[b] > 0 /\ (Throws(b) \/ CannotLeave(b))
  /\ Throw(b) /\ Pop(b)
  /\ \/ /\ Top(b).kind = "savepoint" /\ state # "dead" /\ Known(b)
        /\ Undo(b)
     \/ /\ Top(b).kind = "recovery" /\ state = "broken" /\ Known(b)
        /\ Undo(b)
     \/ /\ Top(b).kind = "recovery" /\ state = "well" /\ Known(b)
        /\ Release(Top(b).name) /\ LeaveBehind(b)
        /\ UNCHANGED <<state, live, setting, health, ownFailed>>
     \/ /\ Top(b).kind \in {"widen", "serve"} /\ state = "well"
        /\ PutBack(Top(b).kind) /\ LeaveBehind(b)
        /\ UNCHANGED <<state, live, snap, health, ownFailed>>
     \/ /\ state = "dead" \/ (state = "broken" /\ Top(b).kind \in {"widen", "serve"})
        /\ LeaveBehind(b)
        /\ UNCHANGED <<state, live, setting, snap, health, ownFailed>>
     \/ /\ Saves(b) /\ state # "dead" /\ ~Known(b)
        /\ state' = "broken" /\ LeaveBehind(b)
        /\ UNCHANGED <<live, setting, snap, health, ownFailed>>
  /\ UNCHANGED <<db, outcome, steps, troubles>>

(* What the block itself says as it is left fails.  Where that was the     *)
(* RELEASE, ROLLBACK TO follows and undoes the block; where that fails as  *)
(* well, or a view is not put back, the transaction is broken.             *)
LeavingFails(b) ==
  /\ depth[b] > 0 /\ (Runs(b) \/ Throws(b)) /\ Trouble
  /\ state = "well" \/ (state = "broken" /\ Saves(b))
  /\ Throw(b) /\ Pop(b)
  /\ \/ /\ state = "well" /\ Saves(b) /\ Known(b) /\ (Runs(b) \/ Top(b).kind = "recovery")
        /\ Undo(b)
     \/ /\ state' = "broken" /\ ownFailed' = TRUE /\ LeaveBehind(b)
        /\ UNCHANGED <<live, setting, snap, health>>
  /\ UNCHANGED <<db, outcome, steps>>

-----------------------------------------------------------------------------
(* The end.                                                                *)

Returns(b) ==
  /\ Runs(b) /\ depth[b] = 0
  /\ mode' = [mode EXCEPT ![b] = "ended"]
  /\ UNCHANGED <<connVars, db, depth, frame, turn, health, outcome, steps, troubles, history>>

Rejects(b) ==
  /\ Throws(b) /\ depth[b] = 0
  /\ mode' = [mode EXCEPT ![b] = "failed"]
  /\ UNCHANGED <<connVars, db, depth, frame, turn, health, outcome, steps, troubles, history>>

(* What the code is told of a commit that came back ROLLBACK: of a lost    *)
(* write, a request gets an error and a job's log a line; nothing, if      *)
(* there was nothing to lose.                                              *)
AfterRollback ==
  IF health.wrote \/ health.refused THEN {"undone", "lost"} ELSE {"ok"}

(* A commit that throws did nothing, or the server did it and the answer   *)
(* was lost on the way: the code is told the same.                         *)
Commit ==
  /\ outcome = "open" /\ \A b \in Branches : mode[b] = "ended"
  /\ \/ state = "well" /\ db' = live /\ outcome' = "ok" /\ UNCHANGED troubles
     \/ state = "well" /\ Trouble /\ outcome' = "error" /\ db' \in {db, live}
     \/ state = "broken" /\ outcome' \in AfterRollback /\ UNCHANGED <<db, troubles>>
     \/ state = "dead" /\ outcome' = "error" /\ UNCHANGED <<db, troubles>>
  /\ UNCHANGED <<connVars, codeVars, steps, history>>

(* The work threw, or its handler did: rolled back, best effort.           *)
Rollback ==
  /\ outcome = "open" /\ \E b \in Branches : mode[b] = "failed"
  /\ outcome' = "error"
  /\ UNCHANGED <<connVars, db, codeVars, steps, troubles, history>>

BranchGoesOn(b) ==
  \/ Write(b) \/ Fails(b) \/ Unanswered(b) \/ ThrowsItself(b) \/ Catches(b)
  \/ \E isWrite \in BOOLEAN : Refused(b, isWrite)
  \/ \E k \in Kinds : Enter(b, k) \/ EnteringFails(b, k)
  \/ Waits(b) \/ GetsTurn(b) \/ Leave(b) \/ Unwind(b) \/ LeavingFails(b) \/ Returns(b) \/ Rejects(b)

Next == \/ \E b \in Branches : BranchGoesOn(b)
        \/ ConnectionDies \/ Commit \/ Rollback

Spec == Init /\ [][Next]_vars

(* Code runs on until it has returned or thrown, and what is caught is not *)
(* thrown again for ever.                                                  *)
Ending(b) == GetsTurn(b) \/ Leave(b) \/ Unwind(b) \/ Returns(b) \/ Rejects(b)

FairSpec == Spec /\ \A b \in Branches : WF_vars(Ending(b)) /\ WF_vars(Commit \/ Rollback)

-----------------------------------------------------------------------------
(* Properties.                                                             *)

Types ==
  /\ state \in {"well", "broken", "dead"} /\ live \subseteq 1..MaxSteps /\ db \subseteq 1..MaxSteps
  /\ setting \in [org : {"owner", "serving"}, all : BOOLEAN]
  /\ snap \in [1..MaxSteps -> [known : BOOLEAN, live : SUBSET (1..MaxSteps), setting : [org : {"owner", "serving"}, all : BOOLEAN]]]
  /\ mode \in [Branches -> {"runs", "waits", "throws", "ended", "failed"}] /\ depth \in [Branches -> Levels]
  /\ frame \in [Branches -> [Levels -> [kind : Kinds \cup {"none"}, name : 0..MaxSteps,
                                        before : [wrote : BOOLEAN, refused : BOOLEAN, failed : BOOLEAN]]]]
  /\ turn \in Branches \cup {"nobody"}
  /\ health \in [wrote : BOOLEAN, refused : BOOLEAN, failed : BOOLEAN]
  /\ outcome \in {"open", "ok", "error", "undone", "lost"}
  /\ steps \in 0..MaxSteps /\ troubles \in 0..MaxTroubles
  /\ mine \in [Branches -> [Levels -> SUBSET (1..MaxSteps)]]
  /\ lapsed \in [Branches -> [Levels -> BOOLEAN]]
  /\ spare \subseteq 1..MaxSteps /\ ownFailed \in BOOLEAN

OneInBlocks == \A b, k \in Branches : b # k => depth[b] = 0 \/ depth[k] = 0

TypeOK == Types /\ OneInBlocks

Told == UNION {mine[b][d] : b \in Branches, d \in Levels}

(* Told it is done, the code has what it was told is written, and no write *)
(* of its was refused for a failure it caught long before (client.ts, "A   *)
(* FAILED STATEMENT ABORTS THE WHOLE TRANSACTION").                        *)
DoneMeansSaved ==
  outcome = "ok" => Told \subseteq db /\ \A b \in Branches : ~lapsed[b][0]

(* A piece of work is there whole or not at all: whole when the code is    *)
(* told it is done, not at all when it is told, or the log is, that        *)
(* nothing was saved, and one of the two when a commit throws (withClient).*)
Whole == INSTANCE AllOrNothing WITH Writes <- 1..MaxSteps, work <- Told
ImplementsAllOrNothing == Whole!Spec

(* The transaction is broken by a statement that failed, the work's, and   *)
(* then the record knows it, or a block's own; never by blocks that got in *)
(* each other's way.  And once it answers again the record holds no        *)
(* failure: what it would report as the cause of a loss is never one that  *)
(* was undone (noted, withSavepoint, withRecovery).                        *)
BrokenByAFailure ==
  /\ state = "broken" => health.failed \/ ownFailed
  /\ state = "well" => ~health.failed /\ ~ownFailed

(* Whatever was switched, nested, undone or caught: a statement, also one  *)
(* that lands in a sibling's block, is made for the business its code is   *)
(* working for; the connection answers for every business while a question *)
(* about every business is open, also for a sibling's reads, and at no     *)
(* other time; and afterwards it is the owner's again                      *)
(* (acrossEveryBusiness, withServingTenant).                               *)
RunsAsItsBusiness ==
  state = "well" =>
    /\ \A b \in Branches : Runs(b) => AsItsBusiness(b)
    /\ setting.all <=> Widened
    /\ (\A b \in Branches : depth[b] = 0) => setting = Own

(* Who has to wait has somebody to wait for, who is in a block and is not  *)
(* waiting in turn: two siblings that both open blocks never wait for each *)
(* other (client.ts, "SAVEPOINTS TAKE TURNS").                             *)
WaitsForAWorker ==
  \A b \in Branches : mode[b] = "waits" /\ turn # "nobody" =>
    turn \in Others(b) /\ depth[turn] > 0 /\ mode[turn] \in {"runs", "throws"}

(* The work ends: nobody waits for a turn that is not given back.          *)
EveryWorkEnds == <>(outcome # "open")
===========================================================================
