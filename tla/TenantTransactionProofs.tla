---------------------- MODULE TenantTransactionProofs ----------------------
(***************************************************************************)
(* What holds of one piece of work in a business's transaction, for any    *)
(* number of branches, blocks, statements and failures.                    *)
(*                                                                         *)
(* Everything rests on one branch being in blocks at a time (TakesTurns):  *)
(* the savepoints PostgreSQL knows are then those of one stack (Stack,     *)
(* Saved), and going back to one of them undoes what its block wrote and   *)
(* set, and nothing that the code around it was told.                      *)
(***************************************************************************)
EXTENDS TenantTransaction, TLAPS

KindOf(b, d) == frame[b][d].kind
NameOf(b, d) == frame[b][d].name
SaveKinds    == {"savepoint", "recovery"}

(* Outside the block b has open at d.                                      *)
Around(b, d, k, e) == k # b \/ e < d

(* s is what the connection must answer as in b's first d blocks.          *)
Shows(s, b, d) ==
  /\ s.all <=> \E e \in 1..d : KindOf(b, e) = "widen"
  /\ s.org = "serving" <=> \E e \in 1..d : KindOf(b, e) = "serve"

Stack ==
  \A b \in Branches :
    /\ \A d \in 1..depth[b] : KindOf(b, d) \in Kinds /\ NameOf(b, d) \in 1..steps
    /\ \A d, e \in 1..depth[b] : d < e => NameOf(b, d) < NameOf(b, e)
    /\ \A d \in Levels : d > depth[b] => mine[b][d] = {} /\ ~lapsed[b][d]
    /\ \A d \in 1..depth[b], e \in 1..depth[b] : e < d =>
         /\ KindOf(b, d) = "serve" => KindOf(b, e) \notin {"serve", "widen"}
         /\ KindOf(b, d) = "widen" => KindOf(b, e) # "widen"

(* No sibling of b goes on.                                                *)
Alone(b) == \A k \in Others(b) : mode[k] \in {"ended", "failed"}

TakesTurns ==
  /\ \A b \in Branches : mode[b] \in {"waits", "ended", "failed"} => depth[b] = 0
  /\ \A b \in Branches : depth[b] > 0 =>
       IF KindOf(b, 1) = "serve" THEN \A k \in Others(b) : mode[k] \in {"ended", "failed"}
                                 ELSE turn = b
  /\ turn # "nobody" => turn \in Branches /\ depth[turn] > 0 /\ KindOf(turn, 1) # "serve"
  /\ \A b \in Branches : \A d \in 1..depth[b] : KindOf(b, d) = "serve" => Alone(b)

Saved ==
  \A b \in Branches : \A d \in 1..depth[b] : KindOf(b, d) \in SaveKinds =>
    /\ snap[NameOf(b, d)].known /\ ~frame[b][d].before.failed
    /\ Shows(snap[NameOf(b, d)].setting, b, d - 1)
    /\ \A k \in Branches, e \in Levels : Around(b, d, k, e) =>
         /\ mine[k][e] \subseteq snap[NameOf(b, d)].live
         /\ mine[k][e] # {} => frame[b][d].before.wrote
         /\ ~lapsed[k][e]
    /\ \A w \in snap[NameOf(b, d)].live :
         w \in spare \/ \E k \in Branches, e \in Levels : Around(b, d, k, e) /\ w \in mine[k][e]

Noted ==
  /\ state = "broken" => health.failed \/ ownFailed
  /\ state = "well" => ~health.failed /\ ~ownFailed
  /\ \A k \in Branches, e \in Levels :
       /\ mine[k][e] # {} => health.wrote
       /\ lapsed[k][e] => health.refused
       /\ state = "well" => ~lapsed[k][e]

Held ==
  /\ \A k \in Branches, e \in Levels : mine[k][e] \subseteq live
  /\ \A w \in live : w \in spare \/ \E k \in Branches, e \in Levels : w \in mine[k][e]

Seen ==
  state = "well" =>
    \A b \in Branches : (\A k \in Others(b) : depth[k] = 0) => Shows(setting, b, depth[b])

Ends ==
  /\ outcome = "open" => db = {}
  /\ outcome = "ok" => \A k \in Branches, e \in Levels : mine[k][e] \subseteq db /\ ~lapsed[k][0]

IInv == Types /\ Stack /\ TakesTurns /\ Saved /\ Noted /\ Held /\ Seen /\ Ends

-----------------------------------------------------------------------------
(* What the helpers of the model do.                                       *)

LEMMA OneBranch ==
  ASSUME Types, TakesTurns
  PROVE  OneInBlocks
<1>1. SUFFICES ASSUME NEW b \in Branches, NEW k \in Branches, b # k, depth[b] # 0, depth[k] # 0 PROVE FALSE
  BY DEF OneInBlocks
<1>2. depth[b] > 0 /\ depth[k] > 0
  <2>1. depth[b] \in Levels /\ depth[k] \in Levels BY DEF Types
  <2> QED BY <2>1, <1>1 DEF Levels
<1>3. mode[b] \notin {"ended", "failed"} /\ mode[k] \notin {"ended", "failed"} BY <1>2, <1>1 DEF TakesTurns, Types, Levels
<1>4. turn = b /\ turn = k BY <1>1, <1>2, <1>3 DEF TakesTurns, Others
<1> QED BY <1>1, <1>4

LEMMA HandsIs ==
  ASSUME Types, NEW b \in Branches, depth[b] > 0, NEW told \in BOOLEAN, NEW refusals \in BOOLEAN,
         Hands(b, told, refusals)
  PROVE  /\ \A k \in Branches, e \in Levels : k # b \/ e \notin {depth[b], depth[b] - 1} =>
              mine'[k][e] = mine[k][e] /\ lapsed'[k][e] = lapsed[k][e]
         /\ mine'[b][depth[b]] = {} /\ lapsed'[b][depth[b]] = FALSE
         /\ mine'[b][depth[b] - 1] = mine[b][depth[b] - 1] \cup IF told THEN mine[b][depth[b]] ELSE {}
         /\ lapsed'[b][depth[b] - 1] = (lapsed[b][depth[b] - 1] \/ (refusals /\ lapsed[b][depth[b]]))
<1> DEFINE d == depth[b]
           m == mine[b][d - 1] \cup IF told THEN mine[b][d] ELSE {}
           l == lapsed[b][d - 1] \/ (refusals /\ lapsed[b][d])
<1>0. d \in 0..MaxDepth /\ MaxDepth \in Nat BY ConstantsAssumption DEF Types, Levels
<1>1. d \in Levels /\ d - 1 \in Levels /\ d # d - 1 BY <1>0 DEF Levels
<1>2. mine \in [Branches -> [Levels -> SUBSET (1..MaxSteps)]] /\ lapsed \in [Branches -> [Levels -> BOOLEAN]]
  BY DEF Types
<1>3. mine[b] \in [Levels -> SUBSET (1..MaxSteps)] /\ lapsed[b] \in [Levels -> BOOLEAN] BY <1>2
<1>4. mine' = [mine EXCEPT ![b] = [mine[b] EXCEPT ![d] = {}, ![d - 1] = m]]
      /\ lapsed' = [lapsed EXCEPT ![b] = [lapsed[b] EXCEPT ![d] = FALSE, ![d - 1] = l]]
  BY DEF Hands
<1> HIDE DEF m, l, d
<1>6. /\ \A k \in Branches : k # b => mine'[k] = mine[k] /\ lapsed'[k] = lapsed[k]
      /\ mine'[b] = [mine[b] EXCEPT ![d] = {}, ![d - 1] = m]
      /\ lapsed'[b] = [lapsed[b] EXCEPT ![d] = FALSE, ![d - 1] = l]
  BY <1>2, <1>4
<1>7. \A k \in Branches, e \in Levels : k # b \/ e \notin {d, d - 1} =>
        mine'[k][e] = mine[k][e] /\ lapsed'[k][e] = lapsed[k][e]
  <2>1. TAKE k \in Branches, e \in Levels
  <2>2. HAVE k # b \/ e \notin {d, d - 1}
  <2>3. CASE k # b BY <2>3, <1>6
  <2>4. CASE k = b /\ e \notin {d, d - 1} BY <2>4, <1>6, <1>3
  <2> QED BY <2>2, <2>3, <2>4
<1>8. mine'[b][d] = {} /\ mine'[b][d - 1] = m BY <1>6, <1>3, <1>1
<1>9. lapsed'[b][d] = FALSE /\ lapsed'[b][d - 1] = l BY <1>6, <1>3, <1>1
<1> QED BY <1>7, <1>8, <1>9 DEF d, m, l

LEMMA PopIs ==
  ASSUME Types, NEW b \in Branches, depth[b] > 0, Pop(b)
  PROVE  /\ depth'[b] = depth[b] - 1
         /\ \A k \in Branches : k # b => depth'[k] = depth[k] /\ frame'[k] = frame[k]
         /\ \A e \in Levels : e # depth[b] => frame'[b][e] = frame[b][e]
<1>1. frame \in [Branches -> [Levels -> [kind : Kinds \cup {"none"}, name : 0..MaxSteps,
                                        before : [wrote : BOOLEAN, refused : BOOLEAN, failed : BOOLEAN]]]]
      /\ depth \in [Branches -> Levels]
  BY DEF Types
<1>2. /\ frame' = [frame EXCEPT ![b] = [frame[b] EXCEPT ![depth[b]] = NoFrame]]
      /\ depth' = [depth EXCEPT ![b] = depth[b] - 1]
  BY <1>1 DEF Pop
<1>3. \A e \in Levels : e # depth[b] => frame'[b][e] = frame[b][e]
  <2>1. frame'[b] = [frame[b] EXCEPT ![depth[b]] = NoFrame] BY <1>1, <1>2
  <2> QED BY <2>1, <1>1
<1> QED BY <1>1, <1>2, <1>3
(* The savepoints still go back to what was told outside their blocks.     *)
LEMMA SavedKept ==
  ASSUME Saved, UNCHANGED <<snap, frame, depth, spare>>,
         \A b \in Branches : \A d \in 1..depth[b] : KindOf(b, d) \in SaveKinds =>
           \A k \in Branches, e \in Levels : Around(b, d, k, e) => mine'[k][e] = mine[k][e] /\ ~lapsed'[k][e]
  PROVE  Saved'
<1>1. SUFFICES ASSUME NEW b \in Branches, NEW d \in 1..depth'[b], KindOf(b, d)' \in SaveKinds
               PROVE  /\ (snap[NameOf(b, d)].known /\ ~frame[b][d].before.failed)'
                      /\ Shows(snap[NameOf(b, d)].setting, b, d - 1)'
                      /\ (\A k \in Branches, e \in Levels : Around(b, d, k, e) =>
                            /\ mine[k][e] \subseteq snap[NameOf(b, d)].live
                            /\ mine[k][e] # {} => frame[b][d].before.wrote
                            /\ ~lapsed[k][e])'
                      /\ (\A w \in snap[NameOf(b, d)].live :
                            w \in spare \/ \E k \in Branches, e \in Levels : Around(b, d, k, e) /\ w \in mine[k][e])'
  BY DEF Saved
<1>2. d \in 1..depth[b] /\ KindOf(b, d) \in SaveKinds BY <1>1 DEF KindOf
<1>3. NameOf(b, d)' = NameOf(b, d) BY DEF NameOf
<1>4. /\ snap[NameOf(b, d)].known /\ ~frame[b][d].before.failed
      /\ Shows(snap[NameOf(b, d)].setting, b, d - 1)
  BY <1>2 DEF Saved
<1>5. Shows(snap[NameOf(b, d)].setting, b, d - 1)' BY <1>3, <1>4 DEF Shows, KindOf
<1>6. \A k \in Branches, e \in Levels : Around(b, d, k, e) =>
        /\ mine[k][e] \subseteq snap[NameOf(b, d)].live
        /\ mine[k][e] # {} => frame[b][d].before.wrote
  BY <1>2 DEF Saved
<1>7. \A w \in snap[NameOf(b, d)].live :
        w \in spare \/ \E k \in Branches, e \in Levels : Around(b, d, k, e) /\ w \in mine[k][e]
  BY <1>2 DEF Saved
<1>8. \A k \in Branches, e \in Levels : Around(b, d, k, e) => mine'[k][e] = mine[k][e] /\ ~lapsed'[k][e] BY <1>2
<1> QED BY <1>3, <1>4, <1>5, <1>6, <1>7, <1>8 DEF Around

-----------------------------------------------------------------------------
(* A step that writes nothing, undoes nothing and opens or ends no block.  *)
LEMMA Quiet ==
  ASSUME IInv, Types', outcome = "open",
         UNCHANGED <<live, setting, snap, db, depth, frame, turn, mine, spare, outcome>>,
         steps <= steps',
         state' = "well" => state = "well" /\ ~health'.failed /\ ~ownFailed',
         state' = "broken" => health'.failed \/ ownFailed',
         health.wrote => health'.wrote, health.refused => health'.refused,
         \A k \in Branches : mode'[k] \in {"waits", "ended", "failed"} => depth[k] = 0,
         \A k \in Branches : mode[k] \in {"ended", "failed"} => mode'[k] = mode[k],
         \A k \in Branches, e \in Levels : lapsed'[k][e] =>
           \/ lapsed[k][e]
           \/ health'.refused /\ state' # "well" /\ e = depth[k] /\ ~Beside(k)
  PROVE  IInv'
<1> USE DEF IInv
<1>1. OneInBlocks BY OneBranch
<1>2. Stack'
  <2>1. steps \in Nat /\ steps' \in Nat BY DEF Types
  <2>2. \A b \in Branches, d \in Levels : d > depth[b] => ~lapsed'[b][d] BY DEF Stack, Types, Levels
  <2> QED BY <2>1, <2>2 DEF Stack, KindOf, NameOf
<1>3. TakesTurns' BY DEF TakesTurns, KindOf, Others, Alone
<1>4. Saved'
  <2>1. ASSUME NEW b \in Branches, NEW d \in 1..depth[b], KindOf(b, d) \in SaveKinds,
               NEW k \in Branches, NEW e \in Levels, Around(b, d, k, e)
        PROVE  ~lapsed'[k][e]
    <3>1. ~lapsed[k][e] BY <2>1 DEF Saved
    <3>2. depth[b] > 0 /\ d <= depth[b] BY DEF Types, Levels
    <3>3. CASE k = b BY <3>1, <3>2, <3>3, <2>1 DEF Around, Types, Levels
    <3>4. CASE k # b
      <4>1. depth[k] = 0 BY <3>4, <3>2, <1>1 DEF OneInBlocks
      <4>2. Beside(k) BY <4>1, <3>2, <3>4 DEF Beside, Others
      <4> QED BY <4>2, <3>1
    <3> QED BY <3>3, <3>4
  <2> QED BY <2>1, SavedKept
<1>5. Noted' BY DEF Noted
<1>6. Held' BY DEF Held
<1>7. Seen' BY DEF Seen, Shows, KindOf, Others
<1>8. Ends' BY DEF Ends
<1> QED BY <1>2, <1>3, <1>4, <1>5, <1>6, <1>7, <1>8

-----------------------------------------------------------------------------
(* A block is left: what remains open is as it was.                        *)
LEMMA Popped ==
  ASSUME IInv, Types', NEW b \in Branches, depth[b] > 0, Pop(b),
         NEW told \in BOOLEAN, NEW refusals \in BOOLEAN, Hands(b, told, refusals),
         steps' = steps, spare \subseteq spare', mode' = mode \/ Throw(b),
         \A n \in 1..MaxSteps : n < NameOf(b, depth[b]) => snap'[n] = snap[n]
  PROVE  Stack' /\ TakesTurns' /\ Saved'
<1> USE DEF IInv
<1>0. OneInBlocks BY OneBranch
<1>1. /\ depth'[b] = depth[b] - 1
      /\ \A k \in Branches : k # b => depth'[k] = depth[k] /\ frame'[k] = frame[k]
      /\ \A e \in Levels : e # depth[b] => frame'[b][e] = frame[b][e]
  BY PopIs
<1>2. depth[b] \in 1..MaxDepth /\ MaxDepth \in Nat /\ steps \in Nat BY ConstantsAssumption DEF Types, Levels
<1>3. \A k \in Branches : k # b => depth[k] = 0 /\ depth'[k] = 0 BY <1>0, <1>1, <1>2 DEF OneInBlocks
<1>4. \A e \in 1..(depth[b] - 1) : e \in Levels /\ e # depth[b] /\ frame'[b][e] = frame[b][e]
  BY <1>1, <1>2 DEF Levels
<1>5. /\ \A k \in Branches, e \in Levels : k # b \/ e \notin {depth[b], depth[b] - 1} =>
           mine'[k][e] = mine[k][e] /\ lapsed'[k][e] = lapsed[k][e]
      /\ mine'[b][depth[b]] = {} /\ lapsed'[b][depth[b]] = FALSE
  BY HandsIs, ZenonT(60)
<1>6. Stack'
  <2>1. ASSUME NEW k \in Branches, k # b
        PROVE  /\ \A d \in Levels : d > 0 => mine'[k][d] = {} /\ ~lapsed'[k][d]
               /\ depth'[k] = 0
    BY <1>5, <1>3, <2>1 DEF Stack
  <2>2. \A d \in Levels : d > depth'[b] => mine'[b][d] = {} /\ ~lapsed'[b][d]
    <3>1. SUFFICES ASSUME NEW d \in Levels, d > depth[b] - 1 PROVE mine'[b][d] = {} /\ ~lapsed'[b][d]
      BY <1>1
    <3>2. CASE d = depth[b] BY <3>2, <1>5
    <3>3. CASE d > depth[b] BY <3>3, <1>5, <1>2 DEF Stack, Levels
    <3> QED BY <3>1, <3>2, <3>3, <1>2 DEF Levels
  <2>3. \A d \in 1..depth'[b] : KindOf(b, d)' \in Kinds /\ NameOf(b, d)' \in 1..steps'
    BY <1>1, <1>2, <1>4 DEF Stack, KindOf, NameOf
  <2>4. \A d, e \in 1..depth'[b] : d < e => NameOf(b, d)' < NameOf(b, e)'
    BY <1>1, <1>2, <1>4 DEF Stack, NameOf
  <2>5. \A d \in 1..depth'[b], e \in 1..depth'[b] : e < d =>
         /\ KindOf(b, d)' = "serve" => KindOf(b, e)' \notin {"serve", "widen"}
         /\ KindOf(b, d)' = "widen" => KindOf(b, e)' # "widen"
    BY <1>1, <1>2, <1>4 DEF Stack, KindOf
  <2> QED BY <2>1, <2>2, <2>3, <2>4, <2>5 DEF Stack, KindOf, NameOf
<1>7. TakesTurns'
  <2>1. mode[b] \in {"runs", "throws"} /\ mode'[b] \in {"runs", "throws"} /\ \A k \in Branches : k # b => mode'[k] = mode[k]
    <3>1. mode \in [Branches -> {"runs", "waits", "throws", "ended", "failed"}] BY DEF Types
    <3>2. mode[b] \in {"runs", "throws"} BY <3>1, <1>2 DEF TakesTurns
    <3> QED BY <3>1, <3>2 DEF Throw
  <2>2. turn' = IF depth[b] = 1 /\ turn = b THEN "nobody" ELSE turn BY DEF Pop, GivesTurn
  <2>3. turn \in {b, "nobody"} BY <1>3, <1>2 DEF TakesTurns
  <2>6. \A k \in Branches : \A e \in 1..depth'[k] : KindOf(k, e)' = "serve" => Alone(k)'
    <3>1. SUFFICES ASSUME NEW k \in Branches, NEW e \in 1..depth'[k], KindOf(k, e)' = "serve" PROVE Alone(k)'
      OBVIOUS
    <3>2. k = b /\ e \in 1..(depth[b] - 1) BY <3>1, <1>3, <1>1
    <3>3. e \in 1..depth[b] /\ KindOf(b, e) = "serve" BY <3>1, <3>2, <1>4, <1>2 DEF KindOf
    <3>4. Alone(b) BY <3>3 DEF TakesTurns
    <3> QED BY <3>2, <3>4, <2>1 DEF Alone, Others
  <2>4. CASE depth[b] = 1
    <3>1. turn' = "nobody" /\ depth'[b] = 0 BY <2>4, <2>2, <2>3, <1>1
    <3> QED BY <3>1, <1>3, <2>1, <2>6 DEF TakesTurns
  <2>5. CASE depth[b] > 1
    <3>1. turn' = turn /\ depth'[b] > 0 /\ KindOf(b, 1)' = KindOf(b, 1) /\ b # "nobody"
      BY <2>5, <2>2, <1>1, <1>2, <1>4, ConstantsAssumption DEF KindOf
    <3>2. \A k \in Branches : mode'[k] \in {"waits", "ended", "failed"} => depth'[k] = 0 BY <1>3, <2>1
    <3>3. IF KindOf(b, 1)' = "serve" THEN \A k \in Others(b) : mode'[k] \in {"ended", "failed"} ELSE turn' = b
      BY <3>1, <2>1, <1>2 DEF TakesTurns, Others
    <3>4. turn' # "nobody" => turn' = b /\ KindOf(b, 1)' # "serve" BY <3>1, <2>3 DEF TakesTurns
    <3> QED BY <3>1, <3>2, <3>3, <3>4, <1>3, <2>6 DEF TakesTurns, KindOf, Others
  <2> QED BY <1>2, <2>4, <2>5
<1>8. Saved'
  <2>1. SUFFICES ASSUME NEW d \in 1..depth'[b], KindOf(b, d)' \in SaveKinds
                 PROVE  /\ snap'[NameOf(b, d)'].known /\ ~frame'[b][d].before.failed
                        /\ Shows(snap[NameOf(b, d)].setting, b, d - 1)'
                        /\ \A k \in Branches, e \in Levels : Around(b, d, k, e) =>
                             /\ mine'[k][e] \subseteq snap'[NameOf(b, d)'].live
                             /\ mine'[k][e] # {} => frame'[b][d].before.wrote
                             /\ ~lapsed'[k][e]
                        /\ \A w \in snap'[NameOf(b, d)'].live :
                             w \in spare' \/ \E k \in Branches, e \in Levels : Around(b, d, k, e) /\ w \in mine'[k][e]
    BY <1>3 DEF Saved, Around
  <2>2. d \in 1..depth[b] /\ d < depth[b] /\ d \in Levels /\ frame'[b][d] = frame[b][d] BY <1>1, <1>2, <1>4 DEF Levels
  <2>3. NameOf(b, d)' = NameOf(b, d) /\ KindOf(b, d)' = KindOf(b, d) BY <2>2 DEF NameOf, KindOf
  <2>4. NameOf(b, d) < NameOf(b, depth[b]) /\ NameOf(b, d) \in 1..MaxSteps
    <3>1. steps \in 0..MaxSteps /\ MaxSteps \in Nat BY ConstantsAssumption DEF Types
    <3>2. depth[b] \in 1..depth[b] BY <1>2
    <3>3. NameOf(b, d) \in 1..steps BY <2>2 DEF Stack
    <3>4. NameOf(b, d) < NameOf(b, depth[b]) BY <2>2, <3>2 DEF Stack
    <3> QED BY <3>1, <3>3, <3>4
  <2>5. snap'[NameOf(b, d)'] = snap[NameOf(b, d)] BY <2>3, <2>4
  <2>6. Shows(snap[NameOf(b, d)].setting, b, d - 1)'
    <3>1. \A e \in 1..(d - 1) : KindOf(b, e)' = KindOf(b, e) BY <1>4, <2>2, <1>2 DEF KindOf
    <3>2. Shows(snap[NameOf(b, d)].setting, b, d - 1) BY <2>2, <2>3, <2>1 DEF Saved
    <3> QED BY <3>1, <3>2, <2>5 DEF Shows
  <2>7. \A k \in Branches, e \in Levels : Around(b, d, k, e) => mine'[k][e] = mine[k][e] /\ lapsed'[k][e] = lapsed[k][e]
    BY <1>5, <2>2, <1>2 DEF Around, Levels
  <2>8. snap[NameOf(b, d)].known /\ ~frame[b][d].before.failed /\ \A k \in Branches, e \in Levels : Around(b, d, k, e) =>
          /\ mine[k][e] \subseteq snap[NameOf(b, d)].live
          /\ mine[k][e] # {} => frame[b][d].before.wrote
          /\ ~lapsed[k][e]
    BY <2>1, <2>2, <2>3 DEF Saved
  <2>9. \A w \in snap[NameOf(b, d)].live :
          w \in spare \/ \E k \in Branches, e \in Levels : Around(b, d, k, e) /\ w \in mine[k][e]
    BY <2>1, <2>2, <2>3 DEF Saved
  <2>10. \A w \in snap'[NameOf(b, d)'].live :
           w \in spare' \/ \E k \in Branches, e \in Levels : Around(b, d, k, e) /\ w \in mine'[k][e]
    BY <2>5, <2>7, <2>9
  <2> QED BY <2>2, <2>5, <2>6, <2>7, <2>8, <2>10
<1> QED BY <1>6, <1>7, <1>8

LEMMA Writes ==
  ASSUME IInv, Types', NEW b \in Branches, Write(b)
  PROVE  IInv'
<1> USE DEF IInv
<1>0. OneInBlocks BY OneBranch
<1>1. /\ outcome = "open" /\ state = "well" /\ ~Beside(b) /\ steps' = steps + 1
      /\ live' = live \cup {steps + 1}
      /\ mine' = [mine EXCEPT ![b] = [mine[b] EXCEPT ![depth[b]] = mine[b][depth[b]] \cup {steps + 1}]]
      /\ health' = [health EXCEPT !.wrote = TRUE]
      /\ UNCHANGED <<state, setting, snap, db, mode, depth, frame, turn, outcome, lapsed, spare, ownFailed>>
  BY DEF Write, Runs, Step
<1>2. mine \in [Branches -> [Levels -> SUBSET (1..MaxSteps)]] /\ depth[b] \in Levels /\ steps \in Nat
  BY DEF Types
<1>3. /\ \A k \in Branches, e \in Levels : k # b \/ e # depth[b] => mine'[k][e] = mine[k][e]
      /\ mine'[b][depth[b]] = mine[b][depth[b]] \cup {steps + 1}
  <2>1. mine[b] \in [Levels -> SUBSET (1..MaxSteps)] BY <1>2
  <2>2. mine'[b] = [mine[b] EXCEPT ![depth[b]] = mine[b][depth[b]] \cup {steps + 1}]
        /\ \A k \in Branches : k # b => mine'[k] = mine[k]
    BY <1>1, <1>2
  <2> QED BY <2>1, <2>2, <1>2
<1>4. health'.wrote /\ health'.failed = health.failed /\ health'.refused = health.refused
  BY <1>1 DEF Types
<1>5. Stack'
  <2>1. \A k \in Branches, d \in Levels : d > depth[k] => mine'[k][d] = {} /\ ~lapsed'[k][d]
    BY <1>1, <1>3, <1>2 DEF Stack, Levels
  <2>2. \A k \in Branches : depth'[k] = depth[k] BY <1>1
  <2> QED BY <1>1, <1>2, <2>1, <2>2 DEF Stack, KindOf, NameOf
<1>6. TakesTurns' BY <1>1 DEF TakesTurns, KindOf, Others, Alone
<1>7. Saved'
  <2>1. ASSUME NEW j \in Branches, NEW d \in 1..depth[j], KindOf(j, d) \in SaveKinds,
               NEW k \in Branches, NEW e \in Levels, Around(j, d, k, e)
        PROVE  mine'[k][e] = mine[k][e] /\ ~lapsed'[k][e]
    <3>1. depth[j] > 0 /\ d <= depth[j] /\ depth[b] >= 0 BY <1>2 DEF Types, Levels
    <3>2. j = b
      <4>1. SUFFICES ASSUME j # b PROVE FALSE OBVIOUS
      <4>2. depth[b] = 0 BY <4>1, <3>1, <1>0 DEF OneInBlocks
      <4> QED BY <4>1, <4>2, <3>1, <1>1 DEF Beside, Others
    <3>3. k # b \/ e # depth[b] BY <2>1, <3>1, <3>2, <1>2 DEF Around, Levels
    <3>4. ~lapsed[k][e] BY <2>1 DEF Saved
    <3> QED BY <3>3, <3>4, <1>1, <1>3
  <2> QED BY <2>1, <1>1, SavedKept
<1>8. Noted' BY <1>1, <1>4 DEF Noted
<1>9. Held'
  <2>1. \A k \in Branches, e \in Levels : mine'[k][e] \subseteq live' BY <1>1, <1>3, <1>2 DEF Held
  <2>2. \A k \in Branches, e \in Levels : mine[k][e] \subseteq mine'[k][e] BY <1>3, <1>2
  <2>3. steps + 1 \in mine'[b][depth[b]] BY <1>3
  <2> QED BY <2>1, <2>2, <2>3, <1>1, <1>2 DEF Held
<1>10. Seen' BY <1>1 DEF Seen, Shows, KindOf, Others
<1>11. Ends' BY <1>1 DEF Ends
<1> QED BY <1>5, <1>6, <1>7, <1>8, <1>9, <1>10, <1>11

(* A block is opened.                                                      *)
LEMMA Opens ==
  ASSUME IInv, Types', NEW b \in Branches, NEW c \in Kinds, Enter(b, c), state = "well"
  PROVE  IInv'
<1> USE DEF IInv
<1> DEFINE t == depth[b] + 1
<1>0. OneInBlocks BY OneBranch
<1>1. /\ outcome = "open" /\ mode[b] = "runs" /\ depth[b] < MaxDepth /\ steps' = steps + 1
      /\ depth' = [depth EXCEPT ![b] = t]
      /\ frame' = [frame EXCEPT ![b] = [frame[b] EXCEPT ![t] = [kind |-> c, name |-> steps + 1, before |-> health]]]
      /\ setting' = [org |-> IF c = "serve" THEN "serving" ELSE setting.org,
                     all |-> setting.all \/ c = "widen"]
      /\ turn' = IF depth[b] = 0 /\ c # "serve" THEN b ELSE turn
      /\ UNCHANGED <<state, live, db, mode, health, outcome, mine, lapsed, spare, ownFailed>>
  <2>1. outcome = "open" /\ mode[b] = "runs" /\ depth[b] < MaxDepth /\ steps' = steps + 1
    BY DEF Enter, Runs, Step
  <2>2. depth' = [depth EXCEPT ![b] = t] BY DEF Enter
  <2>3. frame' = [frame EXCEPT ![b] = [frame[b] EXCEPT ![t] = [kind |-> c, name |-> steps + 1, before |-> health]]]
    BY DEF Enter
  <2>4. setting' = [org |-> IF c = "serve" THEN "serving" ELSE setting.org, all |-> setting.all \/ c = "widen"]
    BY DEF Enter
  <2>5. turn' = IF depth[b] = 0 /\ c # "serve" THEN b ELSE turn BY DEF Enter, TakesTurn
  <2>6. UNCHANGED <<state, live, db, mode, health, outcome, mine, lapsed, spare, ownFailed>> BY DEF Enter, history
  <2> QED BY <2>1, <2>2, <2>3, <2>4, <2>5, <2>6
<1>2. /\ depth[b] = 0 /\ c # "serve" => turn = "nobody"
      /\ c = "serve" => /\ ~In(b, "serve") /\ ~In(b, "widen")
                        /\ \A o \in Others(b) : mode[o] \in {"ended", "failed"}
      /\ c = "widen" => ~In(b, "widen")
  BY DEF Enter, MayEnter, TakesTurn
<1>3. snap' = IF c \in SaveKinds THEN [snap EXCEPT ![steps + 1] = [known |-> TRUE, live |-> live, setting |-> setting]] ELSE snap
  BY DEF Enter, SaveKinds
<1>4. depth[b] \in 0..MaxDepth /\ MaxDepth \in Nat /\ t \in Levels /\ steps \in Nat /\ steps + 1 \in 1..MaxSteps
  <2>1. depth[b] \in 0..MaxDepth /\ MaxDepth \in Nat /\ MaxSteps \in Nat /\ steps \in 0..MaxSteps /\ steps' \in 0..MaxSteps
    BY ConstantsAssumption DEF Types, Levels
  <2> QED BY <2>1, <1>1 DEF Levels
<1>5. /\ depth'[b] = t
      /\ \A k \in Branches : k # b => depth'[k] = depth[k] /\ frame'[k] = frame[k]
      /\ \A e \in Levels : e # t => frame'[b][e] = frame[b][e]
      /\ frame'[b][t] = [kind |-> c, name |-> steps + 1, before |-> health]
  <2>1. frame \in [Branches -> [Levels -> [kind : Kinds \cup {"none"}, name : 0..MaxSteps,
                                        before : [wrote : BOOLEAN, refused : BOOLEAN, failed : BOOLEAN]]]]
        /\ depth \in [Branches -> Levels]
    BY DEF Types
  <2>2. frame[b] \in [Levels -> [kind : Kinds \cup {"none"}, name : 0..MaxSteps,
                                        before : [wrote : BOOLEAN, refused : BOOLEAN, failed : BOOLEAN]]]
    BY <2>1
  <2>3. frame'[b] = [frame[b] EXCEPT ![t] = [kind |-> c, name |-> steps + 1, before |-> health]]
    BY <1>1, <2>1
  <2>4. \A k \in Branches : k # b => depth'[k] = depth[k] /\ frame'[k] = frame[k] BY <1>1, <2>1
  <2> QED BY <1>1, <1>4, <2>1, <2>2, <2>3, <2>4
<1>6. \A e \in 1..depth[b] : e \in Levels /\ e # t /\ frame'[b][e] = frame[b][e]
  <2>1. SUFFICES ASSUME NEW e \in 1..depth[b] PROVE e \in Levels /\ e # t BY <1>5
  <2> QED BY <1>4 DEF Levels
<1>7. \A k \in Branches : k # b => depth[k] = 0 /\ depth'[k] = 0
  <2>1. SUFFICES ASSUME NEW k \in Branches, k # b, depth[k] # 0 PROVE FALSE BY <1>5
  <2>2. depth[k] > 0 /\ mode[k] \notin {"ended", "failed"} BY <2>1 DEF Types, Levels, TakesTurns
  <2>3. depth[b] = 0 BY <1>0, <2>1, <1>4 DEF OneInBlocks
  <2>4. c # "serve" BY <1>2, <2>1, <2>2 DEF Others
  <2>5. turn = "nobody" BY <2>3, <2>4, <1>2
  <2>6. KindOf(k, 1) = "serve" BY <2>2, <2>5, ConstantsAssumption DEF TakesTurns
  <2> QED BY <2>2, <2>6, <1>1, <2>1 DEF TakesTurns, Others
<1>8. /\ c = "serve" => \A e \in 1..depth[b] : KindOf(b, e) \notin {"serve", "widen"}
      /\ c = "widen" => \A e \in 1..depth[b] : KindOf(b, e) # "widen"
  BY <1>2 DEF In, KindOf
<1> HIDE DEF t
<1>9. t = depth[b] + 1 /\ t > 0 /\ t # 0 /\ 1..t = 1..depth[b] \cup {t} /\ t \notin 1..depth[b]
      /\ \A e : e \in 1..t <=> e \in 1..depth[b] \/ e = t
  BY <1>4 DEF t
<1>10. Stack'
  <2>1. \A d \in 1..t : KindOf(b, d)' \in Kinds /\ NameOf(b, d)' \in 1..steps'
    BY <1>1, <1>4, <1>5, <1>6, <1>9 DEF Stack, KindOf, NameOf
  <2>2. \A d, e \in 1..t : d < e => NameOf(b, d)' < NameOf(b, e)'
    BY <1>1, <1>4, <1>5, <1>6, <1>9 DEF Stack, NameOf
  <2>3. \A k \in Branches : \A d \in Levels : d > depth'[k] => mine'[k][d] = {} /\ ~lapsed'[k][d]
    <3>1. ASSUME NEW k \in Branches, NEW d \in Levels, d > depth'[k] PROVE d > depth[k]
      BY <3>1, <1>5, <1>7, <1>9, <1>4 DEF Levels
    <3> QED BY <3>1, <1>1 DEF Stack
  <2>4. \A d \in 1..t, e \in 1..t : e < d =>
         /\ KindOf(b, d)' = "serve" => KindOf(b, e)' \notin {"serve", "widen"}
         /\ KindOf(b, d)' = "widen" => KindOf(b, e)' # "widen"
    <3>1. SUFFICES ASSUME NEW d \in 1..t, NEW e \in 1..depth[b], e < d
                   PROVE  /\ KindOf(b, d)' = "serve" => KindOf(b, e) \notin {"serve", "widen"}
                          /\ KindOf(b, d)' = "widen" => KindOf(b, e) # "widen"
      BY <1>6, <1>9, <1>4 DEF KindOf
    <3>2. CASE d = t BY <3>2, <1>5, <1>8 DEF KindOf
    <3>3. CASE d \in 1..depth[b]
      <4>1. KindOf(b, d)' = KindOf(b, d) BY <3>3, <1>6 DEF KindOf
      <4> QED BY <3>1, <3>3, <4>1 DEF Stack
    <3> QED BY <3>2, <3>3, <1>9
  <2>5. \A k \in Branches : k # b => depth'[k] = 0 BY <1>7
  <2>6. ASSUME NEW k \in Branches
        PROVE  /\ \A d \in 1..depth'[k] : KindOf(k, d)' \in Kinds /\ NameOf(k, d)' \in 1..steps'
               /\ \A d, e \in 1..depth'[k] : d < e => NameOf(k, d)' < NameOf(k, e)'
               /\ \A d \in 1..depth'[k], e \in 1..depth'[k] : e < d =>
                    /\ KindOf(k, d)' = "serve" => KindOf(k, e)' \notin {"serve", "widen"}
                    /\ KindOf(k, d)' = "widen" => KindOf(k, e)' # "widen"
    <3>1. CASE k = b BY <3>1, <2>1, <2>2, <2>4, <1>5
    <3>2. CASE k # b
      <4>1. depth'[k] = 0 BY <3>2, <2>5
      <4> QED BY <4>1
    <3> QED BY <3>1, <3>2
  <2> QED BY <2>3, <2>6 DEF Stack, KindOf, NameOf
<1>11. TakesTurns'
  <2>1. \A k \in Branches : mode'[k] \in {"waits", "ended", "failed"} => depth'[k] = 0
    BY <1>1, <1>7
  <2>4. \A k \in Branches : \A e \in 1..depth'[k] : KindOf(k, e)' = "serve" => Alone(k)'
    <3>1. SUFFICES ASSUME NEW k \in Branches, NEW e \in 1..depth'[k], KindOf(k, e)' = "serve" PROVE Alone(k)'
      OBVIOUS
    <3>2. k = b /\ e \in 1..t BY <3>1, <1>5, <1>7
    <3>3. CASE e = t
      <4>1. c = "serve" BY <3>1, <3>2, <3>3, <1>5 DEF KindOf
      <4> QED BY <4>1, <3>2, <1>2, <1>1 DEF Alone, Others
    <3>4. CASE e \in 1..depth[b]
      <4>1. KindOf(b, e) = "serve" BY <3>1, <3>2, <3>4, <1>6 DEF KindOf
      <4>2. Alone(b) BY <4>1, <3>4 DEF TakesTurns
      <4> QED BY <4>2, <3>2, <1>1 DEF Alone, Others
    <3> QED BY <3>2, <3>3, <3>4, <1>9
  <2>2. CASE depth[b] = 0
    <3>1. t = 1 /\ KindOf(b, 1)' = c BY <2>2, <1>9, <1>5 DEF KindOf
    <3>2. CASE c = "serve"
      <4>1. turn = "nobody" BY <2>2, <1>7, <1>4 DEF TakesTurns
      <4> QED BY <4>1, <3>1, <3>2, <2>1, <2>4, <1>1, <1>2, <1>7 DEF TakesTurns, KindOf, Others
    <3>3. CASE c # "serve"
      <4>1. turn' = b BY <2>2, <3>3, <1>1
      <4> QED BY <4>1, <3>1, <3>3, <2>1, <2>4, <1>1, <1>5, <1>7, <1>9 DEF TakesTurns, KindOf, Others
    <3> QED BY <3>2, <3>3
  <2>3. CASE depth[b] # 0
    <3>1. depth[b] > 0 /\ turn' = turn BY <2>3, <1>4, <1>1
    <3>2. KindOf(b, 1)' = KindOf(b, 1) BY <3>1, <1>4, <1>6 DEF KindOf
    <3>3. turn \in {b, "nobody"} BY <1>7 DEF TakesTurns
    <3> QED BY <3>1, <3>2, <3>3, <2>1, <2>4, <1>1, <1>5, <1>7, <1>9 DEF TakesTurns, KindOf, Others
  <2> QED BY <2>2, <2>3
<1>12. Shows(setting, b, depth[b]) BY <1>7 DEF Seen, Others
<1>13. \A d \in 0..depth[b], s \in [org : {"owner", "serving"}, all : BOOLEAN] : Shows(s, b, d) => Shows(s, b, d)'
  <2>1. SUFFICES ASSUME NEW d \in 0..depth[b], NEW s \in [org : {"owner", "serving"}, all : BOOLEAN], Shows(s, b, d)
                 PROVE  Shows(s, b, d)'
    OBVIOUS
  <2>2. \A e \in 1..d : KindOf(b, e)' = KindOf(b, e) BY <1>6, <1>4 DEF KindOf
  <2> QED BY <2>1, <2>2 DEF Shows
<1>14. Saved'
  <2>1. SUFFICES ASSUME NEW d \in 1..t, KindOf(b, d)' \in SaveKinds
                 PROVE  /\ snap'[NameOf(b, d)'].known /\ ~frame'[b][d].before.failed
                        /\ Shows(snap[NameOf(b, d)].setting, b, d - 1)'
                        /\ \A k \in Branches, e \in Levels : Around(b, d, k, e) =>
                             /\ mine[k][e] \subseteq snap'[NameOf(b, d)'].live
                             /\ mine[k][e] # {} => frame'[b][d].before.wrote
                             /\ ~lapsed[k][e]
                        /\ \A w \in snap'[NameOf(b, d)'].live :
                             w \in spare \/ \E k \in Branches, e \in Levels : Around(b, d, k, e) /\ w \in mine[k][e]
    BY <1>1, <1>5, <1>7 DEF Saved, Around
  <2>2. snap \in [1..MaxSteps -> [known : BOOLEAN, live : SUBSET (1..MaxSteps), setting : [org : {"owner", "serving"}, all : BOOLEAN]]]
        /\ setting \in [org : {"owner", "serving"}, all : BOOLEAN] /\ steps \in Nat /\ depth[b] \in Nat
    BY <1>4 DEF Types
  <2>3. CASE d = t
    <3>1. KindOf(b, d)' = c /\ NameOf(b, d)' = steps + 1 /\ frame'[b][d].before = health
      BY <2>3, <1>5 DEF KindOf, NameOf
    <3>2. snap'[steps + 1] = [known |-> TRUE, live |-> live, setting |-> setting]
      BY <3>1, <2>1, <1>3, <1>4, <2>2
    <3>4. Shows(snap[NameOf(b, d)].setting, b, d - 1)'
      <4>1. d - 1 = depth[b] /\ depth[b] \in 0..depth[b] BY <2>3, <1>9, <2>2
      <4>2. \A e \in 1..depth[b] : KindOf(b, e)' = KindOf(b, e) BY <1>6 DEF KindOf
      <4>3. snap'[NameOf(b, d)'].setting = setting BY <3>1, <3>2
      <4> QED BY <4>1, <4>2, <4>3, <1>12 DEF Shows
    <3>5. \A k \in Branches, e \in Levels : mine[k][e] \subseteq live /\ (mine[k][e] # {} => health.wrote) /\ ~lapsed[k][e]
      BY DEF Held, Noted
    <3>8. ~health.failed BY DEF Noted
    <3>6. ASSUME NEW w \in live PROVE w \in spare \/ \E k \in Branches, e \in Levels : Around(b, d, k, e) /\ w \in mine[k][e]
      <4>1. SUFFICES ASSUME w \notin spare PROVE \E k \in Branches, e \in Levels : Around(b, d, k, e) /\ w \in mine[k][e]
        OBVIOUS
      <4>2. PICK k \in Branches, e \in Levels : w \in mine[k][e] BY <3>6, <4>1 DEF Held
      <4>3. e <= depth[k]
        <5>1. e \in 0..MaxDepth /\ MaxDepth \in Nat /\ depth[k] \in 0..MaxDepth BY <1>4 DEF Levels, Types
        <5>2. ~(e > depth[k]) BY <4>2 DEF Stack
        <5> QED BY <5>1, <5>2
      <4>4. Around(b, d, k, e) BY <4>3, <2>3, <1>9, <2>2 DEF Around, Levels
      <4> QED BY <4>2, <4>4
    <3> QED BY <3>1, <3>2, <3>4, <3>5, <3>6, <3>8
  <2>4. CASE d \in 1..depth[b]
    <3>1. frame'[b][d] = frame[b][d] BY <2>4, <1>6
    <3>2. KindOf(b, d)' = KindOf(b, d) /\ NameOf(b, d)' = NameOf(b, d) BY <3>1 DEF KindOf, NameOf
    <3>3. NameOf(b, d) \in 1..steps /\ NameOf(b, d) # steps + 1 BY <2>4, <2>2 DEF Stack
    <3>4. snap'[NameOf(b, d)'] = snap[NameOf(b, d)] BY <3>2, <3>3, <1>3, <2>2
    <3>5. Shows(snap[NameOf(b, d)].setting, b, d - 1)
      BY <3>2, <2>1, <2>4 DEF Saved
    <3>6. Shows(snap[NameOf(b, d)].setting, b, d - 1)'
      <4>1. \A e \in 1..(d - 1) : KindOf(b, e)' = KindOf(b, e) BY <1>6, <2>4, <2>2 DEF KindOf
      <4> QED BY <4>1, <3>4, <3>5 DEF Shows
    <3> QED BY <3>1, <3>2, <3>4, <3>6, <2>1, <2>4 DEF Saved
  <2> QED BY <2>3, <2>4, <1>9
<1>15. Noted' BY <1>1 DEF Noted
<1>16. Held' BY <1>1 DEF Held
<1>17. Seen'
  <2>1. SUFFICES ASSUME NEW k \in Branches, \A o \in Others(k) : depth'[o] = 0
                 PROVE  Shows(setting, k, depth[k])'
    BY DEF Seen, Others
  <2>2. k = b
    <3>1. SUFFICES ASSUME k # b PROVE FALSE OBVIOUS
    <3>2. b \in Others(k) BY <3>1 DEF Others
    <3> QED BY <3>2, <2>1, <1>5, <1>9
  <2>3. frame'[b][t].kind = c /\ \A e \in 1..depth[b] : KindOf(b, e)' = KindOf(b, e) BY <1>5, <1>6 DEF KindOf
  <2>6. setting \in [org : {"owner", "serving"}, all : BOOLEAN] BY DEF Types
  <2>4. setting'.all <=> setting.all \/ c = "widen" BY <1>1, <2>6
  <2>5. setting'.org = "serving" <=> setting.org = "serving" \/ c = "serve" BY <1>1, <2>6
  <2>7. (\E e \in 1..t : KindOf(b, e)' = "widen") <=> (\E e \in 1..depth[b] : KindOf(b, e) = "widen") \/ c = "widen"
    BY <2>3, <1>9 DEF KindOf
  <2>8. (\E e \in 1..t : KindOf(b, e)' = "serve") <=> (\E e \in 1..depth[b] : KindOf(b, e) = "serve") \/ c = "serve"
    BY <2>3, <1>9 DEF KindOf
  <2>9. /\ setting'.all <=> \E e \in 1..t : KindOf(b, e)' = "widen"
        /\ setting'.org = "serving" <=> \E e \in 1..t : KindOf(b, e)' = "serve"
    BY <2>4, <2>5, <2>7, <2>8, <1>12 DEF Shows
  <2>10. depth'[k] = t BY <2>2, <1>5
  <2> QED BY <2>2, <2>9, <2>10 DEF Shows
<1>18. Ends' BY <1>1 DEF Ends
<1> QED BY <1>10, <1>11, <1>14, <1>15, <1>16, <1>17, <1>18

(* What is seen after a block is left depends on the block's own branch.   *)
LEMMA SeenAfter ==
  ASSUME IInv, NEW b \in Branches, depth[b] > 0, Pop(b),
         state' = "well" => Shows(setting', b, depth[b] - 1)
  PROVE  Seen'
<1> USE DEF IInv
<1>0. OneInBlocks BY OneBranch
<1>1. /\ depth'[b] = depth[b] - 1
      /\ \A k \in Branches : k # b => depth'[k] = depth[k] /\ frame'[k] = frame[k]
      /\ \A e \in Levels : e # depth[b] => frame'[b][e] = frame[b][e]
  BY PopIs
<1>2. depth[b] \in 1..MaxDepth /\ MaxDepth \in Nat BY ConstantsAssumption DEF Types, Levels
<1>3. \A k \in Branches : k # b => depth'[k] = 0 BY <1>0, <1>1, <1>2 DEF OneInBlocks
<1>4. \A e \in 1..(depth[b] - 1) : frame'[b][e] = frame[b][e] BY <1>1, <1>2 DEF Levels
<1>5. SUFFICES ASSUME state' = "well", NEW k \in Branches, \A o \in Others(k) : depth'[o] = 0
               PROVE  /\ setting'.all <=> \E e \in 1..depth'[k] : frame'[k][e].kind = "widen"
                      /\ setting'.org = "serving" <=> \E e \in 1..depth'[k] : frame'[k][e].kind = "serve"
  BY DEF Seen, Shows, KindOf, Others
<1>6. /\ setting'.all <=> \E e \in 1..(depth[b] - 1) : frame[b][e].kind = "widen"
      /\ setting'.org = "serving" <=> \E e \in 1..(depth[b] - 1) : frame[b][e].kind = "serve"
  BY <1>5 DEF Shows, KindOf
<1>7. CASE k = b BY <1>7, <1>6, <1>4, <1>1
<1>8. CASE k # b
  <2>1. depth'[k] = 0 /\ depth'[b] = 0 BY <1>8, <1>3, <1>5 DEF Others
  <2>2. depth[b] - 1 = 0 BY <2>1, <1>1
  <2> QED BY <2>1, <2>2, <1>6
<1> QED BY <1>7, <1>8

(* The view as it was before the block: kept, or put back.                 *)
LEMMA SeenAround ==
  ASSUME IInv, NEW b \in Branches, depth[b] > 0, state = "well",
         IF KindOf(b, depth[b]) \in SaveKinds
           THEN setting' = setting
           ELSE setting' = [org |-> IF KindOf(b, depth[b]) = "serve" THEN "owner" ELSE setting.org,
                            all |-> setting.all /\ KindOf(b, depth[b]) # "widen"]
  PROVE  Shows(setting', b, depth[b] - 1)
<1> USE DEF IInv
<1> DEFINE d == depth[b]
<1>2. d \in 1..MaxDepth /\ MaxDepth \in Nat BY ConstantsAssumption DEF Types, Levels
<1>0. OneInBlocks BY OneBranch
<1>1. Shows(setting, b, d) BY <1>2, <1>0 DEF Seen, Others, OneInBlocks
<1>3. \A e : e \in 1..d <=> e \in 1..(d - 1) \/ e = d BY <1>2
<1>4. setting \in [org : {"owner", "serving"}, all : BOOLEAN] BY DEF Types
<1>5. KindOf(b, d) \in Kinds BY <1>2 DEF Stack
<1>6. CASE KindOf(b, d) \in SaveKinds
  <2>1. setting' = setting /\ KindOf(b, d) \notin {"serve", "widen"} BY <1>6 DEF SaveKinds
  <2> QED BY <2>1, <1>1, <1>3 DEF Shows
<1>7. CASE KindOf(b, d) = "serve"
  <2>1. setting' = [org |-> "owner", all |-> setting.all] BY <1>7, <1>4 DEF SaveKinds
  <2>2. \A e \in 1..(d - 1) : KindOf(b, e) \notin {"serve", "widen"} BY <1>7, <1>2 DEF Stack
  <2> QED BY <2>1, <2>2, <1>1, <1>3, <1>7 DEF Shows
<1>8. CASE KindOf(b, d) = "widen"
  <2>1. setting' = [org |-> setting.org, all |-> FALSE] BY <1>8, <1>4 DEF SaveKinds
  <2>2. \A e \in 1..(d - 1) : KindOf(b, e) # "widen" BY <1>8, <1>2 DEF Stack
  <2> QED BY <2>1, <2>2, <1>1, <1>3, <1>8 DEF Shows
<1> QED BY <1>5, <1>6, <1>7, <1>8 DEF Kinds, SaveKinds

LEMMA Leaves ==
  ASSUME IInv, Types', NEW b \in Branches, Leave(b)
  PROVE  IInv'
<1> USE DEF IInv
<1> DEFINE d == depth[b]
<1>1. /\ outcome = "open" /\ d > 0 /\ state = "well" /\ Pop(b) /\ Hands(b, TRUE, TRUE)
      /\ UNCHANGED <<state, live, db, mode, health, outcome, steps, troubles, spare, ownFailed>>
  BY DEF Leave, Runs
<1>2. d \in 1..MaxDepth /\ MaxDepth \in Nat /\ steps \in 0..MaxSteps /\ MaxSteps \in Nat BY <1>1, ConstantsAssumption DEF Types, Levels
<1>3. IF KindOf(b, d) \in SaveKinds
        THEN snap' = [n \in 1..MaxSteps |-> IF n < NameOf(b, d) THEN snap[n] ELSE NoSave] /\ setting' = setting
        ELSE snap' = snap /\ setting' = [org |-> IF KindOf(b, d) = "serve" THEN "owner" ELSE setting.org,
                                         all |-> setting.all /\ KindOf(b, d) # "widen"]
  BY DEF Leave, Saves, Top, Release, PutBack, KindOf, NameOf, SaveKinds
<1>4. NameOf(b, d) \in 1..steps /\ KindOf(b, d) \in Kinds BY <1>2 DEF Stack
<1>5. \A n \in 1..MaxSteps : n < NameOf(b, d) => snap'[n] = snap[n] BY <1>3
<1>6. Stack' /\ TakesTurns' /\ Saved' BY <1>1, <1>5, Popped
<1>7. /\ \A k \in Branches, e \in Levels : k # b \/ e \notin {d, d - 1} =>
           mine'[k][e] = mine[k][e] /\ lapsed'[k][e] = lapsed[k][e]
      /\ mine'[b][d] = {} /\ lapsed'[b][d] = FALSE
      /\ mine'[b][d - 1] = mine[b][d - 1] \cup mine[b][d]
      /\ lapsed'[b][d - 1] = (lapsed[b][d - 1] \/ lapsed[b][d])
  BY <1>1, HandsIs
<1>8. d \in Levels /\ d - 1 \in Levels BY <1>2 DEF Levels
<1>9. \A k \in Branches, e \in Levels : ~lapsed[k][e] BY <1>1 DEF Noted
<1>10. \A k \in Branches, e \in Levels : ~lapsed'[k][e] BY <1>7, <1>8, <1>9
<1>11. \A k \in Branches, e \in Levels : mine'[k][e] # {} => health.wrote
  <2>1. TAKE k \in Branches, e \in Levels
  <2>2. CASE k # b \/ e \notin {d, d - 1} BY <2>2, <1>7 DEF Noted
  <2>3. CASE k = b /\ e = d BY <2>3, <1>7
  <2>4. CASE k = b /\ e = d - 1 BY <2>4, <1>7, <1>8 DEF Noted
  <2> QED BY <2>2, <2>3, <2>4
<1>12. Noted' BY <1>1, <1>10, <1>11 DEF Noted
<1>13. Held'
  <2>1. \A k \in Branches, e \in Levels : mine'[k][e] \subseteq live
    <3>1. TAKE k \in Branches, e \in Levels
    <3>2. CASE k # b \/ e \notin {d, d - 1} BY <3>2, <1>7 DEF Held
    <3>3. CASE k = b /\ e = d BY <3>3, <1>7
    <3>4. CASE k = b /\ e = d - 1 BY <3>4, <1>7, <1>8 DEF Held
    <3> QED BY <3>2, <3>3, <3>4
  <2>2. ASSUME NEW w \in live, w \notin spare PROVE \E k \in Branches, e \in Levels : w \in mine'[k][e]
    <3>1. PICK k \in Branches, e \in Levels : w \in mine[k][e] BY <2>2 DEF Held
    <3>2. CASE k # b \/ e \notin {d, d - 1} BY <3>1, <3>2, <1>7
    <3>3. CASE k = b /\ e \in {d, d - 1} BY <3>1, <3>3, <1>7, <1>8
    <3> QED BY <3>2, <3>3
  <2> QED BY <1>1, <2>1, <2>2 DEF Held
<1>14. Shows(setting', b, d - 1) BY <1>1, <1>3, SeenAround
<1>15. Seen' BY <1>1, <1>14, SeenAfter
<1>16. Ends' BY <1>1 DEF Ends
<1> QED BY <1>6, <1>12, <1>13, <1>15, <1>16

LEMMA Undoes ==
  ASSUME IInv, Types', NEW b \in Branches, outcome = "open", depth[b] > 0, Throw(b), Pop(b),
         KindOf(b, depth[b]) \in SaveKinds, Undo(b), UNCHANGED <<db, outcome, steps>>
  PROVE  IInv'
<1> USE DEF IInv
<1> DEFINE d == depth[b]
           n == NameOf(b, d)
<1>1. /\ state' = "well" /\ live' = snap[n].live /\ setting' = snap[n].setting
      /\ snap' = [m \in 1..MaxSteps |-> IF m <= n THEN snap[m] ELSE NoSave]
      /\ health' = frame[b][d].before /\ ~ownFailed'
      /\ Hands(b, FALSE, FALSE) /\ spare' = spare
  BY DEF Undo, RollBackTo, Top, NameOf
<1>2. d \in 1..MaxDepth /\ MaxDepth \in Nat /\ steps \in 0..MaxSteps /\ MaxSteps \in Nat BY ConstantsAssumption DEF Types, Levels
<1>3. n \in 1..steps BY <1>2 DEF Stack
<1>4. \A m \in 1..MaxSteps : m < n => snap'[m] = snap[m] BY <1>1, <1>3
<1>5. Stack' /\ TakesTurns' /\ Saved' BY <1>1, <1>4, Popped
<1>6. /\ \A k \in Branches, e \in Levels : k # b \/ e \notin {d, d - 1} =>
           mine'[k][e] = mine[k][e] /\ lapsed'[k][e] = lapsed[k][e]
      /\ mine'[b][d] = {} /\ lapsed'[b][d] = FALSE
      /\ mine'[b][d - 1] = mine[b][d - 1] /\ lapsed'[b][d - 1] = lapsed[b][d - 1]
  <2>1. lapsed[b][d - 1] \in BOOLEAN
    <3>1. lapsed \in [Branches -> [Levels -> BOOLEAN]] BY DEF Types
    <3>2. d - 1 \in Levels BY <1>2 DEF Levels
    <3> QED BY <3>1, <3>2
  <2>2. /\ \A k \in Branches, e \in Levels : k # b \/ e \notin {d, d - 1} =>
             mine'[k][e] = mine[k][e] /\ lapsed'[k][e] = lapsed[k][e]
        /\ mine'[b][d] = {} /\ lapsed'[b][d] = FALSE
        /\ mine'[b][d - 1] = mine[b][d - 1] \cup {}
        /\ lapsed'[b][d - 1] = (lapsed[b][d - 1] \/ FALSE)
    BY <1>1, HandsIs
  <2> QED BY <2>1, <2>2
<1>7. d \in Levels /\ d - 1 \in Levels BY <1>2 DEF Levels
<1>8. /\ Shows(snap[n].setting, b, d - 1) /\ ~frame[b][d].before.failed
      /\ \A k \in Branches, e \in Levels : Around(b, d, k, e) =>
           /\ mine[k][e] \subseteq snap[n].live
           /\ mine[k][e] # {} => frame[b][d].before.wrote
           /\ ~lapsed[k][e]
      /\ \A w \in snap[n].live :
           w \in spare \/ \E k \in Branches, e \in Levels : Around(b, d, k, e) /\ w \in mine[k][e]
  BY <1>2 DEF Saved
<1>9. \A k \in Branches, e \in Levels :
        IF Around(b, d, k, e) THEN mine'[k][e] = mine[k][e] /\ lapsed'[k][e] = lapsed[k][e]
                              ELSE mine'[k][e] = {} /\ ~lapsed'[k][e]
  <2>1. TAKE k \in Branches, e \in Levels
  <2>2. e \in 0..MaxDepth BY DEF Levels
  <2>3. CASE k # b \/ e < d - 1 BY <2>2, <2>3, <1>6, <1>2 DEF Around
  <2>4. CASE k = b /\ e = d - 1 BY <2>4, <1>6, <1>2 DEF Around
  <2>5. CASE k = b /\ e = d BY <2>5, <1>6, <1>2 DEF Around
  <2>6. CASE k = b /\ e > d
    <3>1. mine[b][e] = {} /\ ~lapsed[b][e] BY <2>6 DEF Stack
    <3>2. e \notin {d, d - 1} /\ ~Around(b, d, k, e) BY <2>6, <2>2, <1>2 DEF Around
    <3> QED BY <3>1, <3>2, <2>6, <1>6
  <2> QED BY <2>2, <2>3, <2>4, <2>5, <2>6, <1>2
<1>10. Noted' BY <1>1, <1>8, <1>9 DEF Noted
<1>11. Held'
  <2>1. \A k \in Branches, e \in Levels : mine'[k][e] \subseteq live' BY <1>1, <1>8, <1>9
  <2>2. \A w \in live' : w \in spare' \/ \E k \in Branches, e \in Levels : w \in mine'[k][e]
    BY <1>1, <1>8, <1>9
  <2> QED BY <2>1, <2>2 DEF Held
<1>12. Seen' BY <1>1, <1>8, SeenAfter
<1>13. Ends' BY DEF Ends
<1> QED BY <1>5, <1>10, <1>11, <1>12, <1>13

LEMMA LeavesBehind ==
  ASSUME IInv, Types', NEW b \in Branches, outcome = "open", depth[b] > 0, Throw(b), Pop(b), LeaveBehind(b),
         UNCHANGED <<live, health, db, outcome, steps>>,
         \/ UNCHANGED <<state, ownFailed>>
         \/ state' = "broken" /\ ownFailed',
         \A n \in 1..MaxSteps : n < NameOf(b, depth[b]) => snap'[n] = snap[n],
         state' = "well" => Shows(setting', b, depth[b] - 1)
  PROVE  IInv'
<1> USE DEF IInv
<1> DEFINE d == depth[b]
<1>1. Hands(b, FALSE, TRUE) /\ spare' = spare \cup mine[b][d] BY DEF LeaveBehind
<1>2. d \in 1..MaxDepth /\ MaxDepth \in Nat BY ConstantsAssumption DEF Types, Levels
<1>5. Stack' /\ TakesTurns' /\ Saved' BY <1>1, Popped
<1>6. /\ \A k \in Branches, e \in Levels : k # b \/ e \notin {d, d - 1} =>
           mine'[k][e] = mine[k][e] /\ lapsed'[k][e] = lapsed[k][e]
      /\ mine'[b][d] = {} /\ lapsed'[b][d] = FALSE
      /\ mine'[b][d - 1] = mine[b][d - 1] /\ lapsed'[b][d - 1] = (lapsed[b][d - 1] \/ lapsed[b][d])
  <2>1. /\ \A k \in Branches, e \in Levels : k # b \/ e \notin {d, d - 1} =>
             mine'[k][e] = mine[k][e] /\ lapsed'[k][e] = lapsed[k][e]
        /\ mine'[b][d] = {} /\ lapsed'[b][d] = FALSE
        /\ mine'[b][d - 1] = mine[b][d - 1] \cup {}
        /\ lapsed'[b][d - 1] = (lapsed[b][d - 1] \/ lapsed[b][d])
    BY <1>1, HandsIs
  <2> QED BY <2>1
<1>7. d \in Levels /\ d - 1 \in Levels BY <1>2 DEF Levels
<1>8. \A k \in Branches, e \in Levels : mine'[k][e] = IF k = b /\ e = d THEN {} ELSE mine[k][e]
  BY <1>6
<1>9. \A k \in Branches, e \in Levels : lapsed'[k][e] => lapsed[k][e] \/ lapsed[b][d]
  BY <1>6
<1>10. Noted' BY <1>7, <1>8, <1>9 DEF Noted
<1>11. Held'
  <2>1. \A w \in live : w \in spare' \/ \E k \in Branches, e \in Levels : w \in mine'[k][e]
    <3>1. SUFFICES ASSUME NEW w \in live, w \notin spare' PROVE \E k \in Branches, e \in Levels : w \in mine'[k][e]
      OBVIOUS
    <3>2. PICK k \in Branches, e \in Levels : w \in mine[k][e] BY <1>1, <3>1 DEF Held
    <3>3. ~(k = b /\ e = d) BY <1>1, <3>1, <3>2
    <3> QED BY <3>2, <3>3, <1>8
  <2> QED BY <2>1, <1>8 DEF Held
<1>12. Seen' BY SeenAfter
<1>13. Ends' BY DEF Ends
<1> QED BY <1>5, <1>10, <1>11, <1>12, <1>13

-----------------------------------------------------------------------------
(* Type correctness.                                                       *)

SetTypes   == [org : {"owner", "serving"}, all : BOOLEAN]
SnapTypes  == [known : BOOLEAN, live : SUBSET (1..MaxSteps), setting : SetTypes]
NoteTypes  == [wrote : BOOLEAN, refused : BOOLEAN, failed : BOOLEAN]
FrameTypes == [kind : Kinds \cup {"none"}, name : 0..MaxSteps, before : NoteTypes]
Modes      == {"runs", "waits", "throws", "ended", "failed"}

LEMMA TypesAre ==
  /\ Types <=> /\ state \in {"well", "broken", "dead"} /\ live \in SUBSET (1..MaxSteps) /\ db \in SUBSET (1..MaxSteps)
               /\ setting \in SetTypes /\ snap \in [1..MaxSteps -> SnapTypes]
               /\ mode \in [Branches -> Modes] /\ depth \in [Branches -> Levels]
               /\ frame \in [Branches -> [Levels -> FrameTypes]] /\ turn \in Branches \cup {"nobody"}
               /\ health \in NoteTypes /\ outcome \in {"open", "ok", "error", "undone", "lost"}
               /\ steps \in 0..MaxSteps /\ troubles \in 0..MaxTroubles
               /\ mine \in [Branches -> [Levels -> SUBSET (1..MaxSteps)]]
               /\ lapsed \in [Branches -> [Levels -> BOOLEAN]] /\ spare \in SUBSET (1..MaxSteps)
               /\ ownFailed \in BOOLEAN
  /\ Own \in SetTypes /\ NoSave \in SnapTypes /\ Blank \in NoteTypes /\ NoFrame \in FrameTypes
BY ConstantsAssumption DEF Types, SetTypes, SnapTypes, NoteTypes, FrameTypes, Modes, Own, NoSave, Blank, NoFrame

LEMMA InitTypes == Init => Types
<1>1. 0 \in Levels /\ 0 \in 0..MaxSteps /\ 0 \in 0..MaxTroubles BY ConstantsAssumption DEF Levels
<1>2. ASSUME Init
      PROVE  /\ state \in {"well", "broken", "dead"} /\ live \in SUBSET (1..MaxSteps) /\ db \in SUBSET (1..MaxSteps)
             /\ setting \in SetTypes /\ snap \in [1..MaxSteps -> SnapTypes]
             /\ health \in NoteTypes /\ outcome \in {"open", "ok", "error", "undone", "lost"}
             /\ spare \in SUBSET (1..MaxSteps) /\ ownFailed \in BOOLEAN
  BY <1>2, TypesAre DEF Init
<1>3. ASSUME Init
      PROVE  /\ mode \in [Branches -> Modes] /\ depth \in [Branches -> Levels]
             /\ frame \in [Branches -> [Levels -> FrameTypes]] /\ turn \in Branches \cup {"nobody"}
             /\ steps \in 0..MaxSteps /\ troubles \in 0..MaxTroubles
             /\ mine \in [Branches -> [Levels -> SUBSET (1..MaxSteps)]]
             /\ lapsed \in [Branches -> [Levels -> BOOLEAN]]
  BY <1>1, <1>3, TypesAre DEF Init, Modes
<1> QED BY <1>2, <1>3, TypesAre

(* One step of the counters of statements and of failures.                 *)
LEMMA CountTypes ==
  ASSUME Types
  PROVE  (Step => steps' \in 0..MaxSteps) /\ (Trouble => troubles' \in 0..MaxTroubles)
BY ConstantsAssumption DEF Types, Step, Trouble

LEMMA ThrowTypes == ASSUME Types, NEW b \in Branches, Throw(b) PROVE mode' \in [Branches -> Modes]
BY TypesAre DEF Throw, Modes

LEMMA PopTypes ==
  ASSUME Types, NEW b \in Branches, depth[b] > 0, Pop(b)
  PROVE  depth' \in [Branches -> Levels] /\ frame' \in [Branches -> [Levels -> FrameTypes]]
         /\ turn' \in Branches \cup {"nobody"}
<1>1. depth[b] - 1 \in Levels /\ depth \in [Branches -> Levels] BY ConstantsAssumption, TypesAre DEF Levels
<1>2. depth' \in [Branches -> Levels] BY <1>1 DEF Pop
<1>3. frame \in [Branches -> [Levels -> FrameTypes]] /\ NoFrame \in FrameTypes BY TypesAre
<1>4. frame' \in [Branches -> [Levels -> FrameTypes]] BY <1>3 DEF Pop
<1>5. turn' \in Branches \cup {"nobody"} BY TypesAre DEF Pop, GivesTurn
<1> QED BY <1>2, <1>4, <1>5

LEMMA HandsTypes ==
  ASSUME Types, NEW b \in Branches, depth[b] > 0, NEW told \in BOOLEAN, NEW refusals \in BOOLEAN,
         Hands(b, told, refusals)
  PROVE  mine' \in [Branches -> [Levels -> SUBSET (1..MaxSteps)]] /\ lapsed' \in [Branches -> [Levels -> BOOLEAN]]
<1>1. depth[b] \in Levels /\ depth[b] - 1 \in Levels BY ConstantsAssumption, TypesAre DEF Levels
<1>2. mine \in [Branches -> [Levels -> SUBSET (1..MaxSteps)]] /\ lapsed \in [Branches -> [Levels -> BOOLEAN]]
  BY TypesAre
<1>3. mine[b] \in [Levels -> SUBSET (1..MaxSteps)] /\ lapsed[b] \in [Levels -> BOOLEAN] BY <1>2
<1>4. mine[b][depth[b] - 1] \cup (IF told THEN mine[b][depth[b]] ELSE {}) \in SUBSET (1..MaxSteps)
  <2>1. mine[b][depth[b] - 1] \in SUBSET (1..MaxSteps) /\ mine[b][depth[b]] \in SUBSET (1..MaxSteps) BY <1>1, <1>3
  <2> QED BY <2>1
<1>5. [mine[b] EXCEPT ![depth[b]] = {},
         ![depth[b] - 1] = mine[b][depth[b] - 1] \cup IF told THEN mine[b][depth[b]] ELSE {}] \in [Levels -> SUBSET (1..MaxSteps)]
  BY <1>1, <1>3, <1>4
<1>6. [lapsed[b] EXCEPT ![depth[b]] = FALSE,
         ![depth[b] - 1] = lapsed[b][depth[b] - 1] \/ (refusals /\ lapsed[b][depth[b]])] \in [Levels -> BOOLEAN]
  BY <1>1, <1>3
<1>7. mine' \in [Branches -> [Levels -> SUBSET (1..MaxSteps)]] BY <1>2, <1>5 DEF Hands
<1>8. lapsed' \in [Branches -> [Levels -> BOOLEAN]] BY <1>2, <1>6 DEF Hands
<1> QED BY <1>7, <1>8

LEMMA PutBackTypes == ASSUME Types, NEW k, PutBack(k) PROVE setting' \in SetTypes
<1>1. setting \in SetTypes BY TypesAre
<1>2. setting.org \in {"owner", "serving"} /\ setting.all \in BOOLEAN BY <1>1 DEF SetTypes
<1> QED BY <1>2 DEF PutBack, SetTypes

LEMMA ReleaseTypes == ASSUME Types, NEW n, Release(n) PROVE snap' \in [1..MaxSteps -> SnapTypes]
<1>1. snap \in [1..MaxSteps -> SnapTypes] /\ NoSave \in SnapTypes BY TypesAre
<1> QED BY <1>1 DEF Release

LEMMA UndoTypes ==
  ASSUME Types, Stack, NEW b \in Branches, depth[b] > 0, Undo(b)
  PROVE  /\ state' = "well" /\ live' \in SUBSET (1..MaxSteps) /\ setting' \in SetTypes
         /\ snap' \in [1..MaxSteps -> SnapTypes] /\ health' \in NoteTypes /\ spare' = spare /\ ownFailed' \in BOOLEAN
         /\ mine' \in [Branches -> [Levels -> SUBSET (1..MaxSteps)]] /\ lapsed' \in [Branches -> [Levels -> BOOLEAN]]
<1> DEFINE n == NameOf(b, depth[b])
<1>1. depth[b] \in 1..depth[b] /\ depth[b] \in Levels /\ steps \in 0..MaxSteps /\ MaxSteps \in Nat
  BY TypesAre, ConstantsAssumption DEF Levels
<1>2. n \in 1..MaxSteps BY <1>1 DEF Stack
<1>3. snap \in [1..MaxSteps -> SnapTypes] /\ NoSave \in SnapTypes BY TypesAre
<1>4. snap[n] \in SnapTypes BY <1>2, <1>3
<1>5. snap[n].live \in SUBSET (1..MaxSteps) /\ snap[n].setting \in SetTypes BY <1>4 DEF SnapTypes
<1>6. frame[b][depth[b]] \in FrameTypes
  <2>1. frame \in [Branches -> [Levels -> FrameTypes]] BY TypesAre
  <2> QED BY <2>1, <1>1
<1>7. frame[b][depth[b]].before \in NoteTypes BY <1>6 DEF FrameTypes
<1>8. /\ state' = "well" /\ live' = snap[n].live /\ setting' = snap[n].setting
      /\ snap' = [m \in 1..MaxSteps |-> IF m <= n THEN snap[m] ELSE NoSave]
      /\ health' = frame[b][depth[b]].before /\ Hands(b, FALSE, FALSE) /\ spare' = spare /\ ownFailed' = FALSE
  BY DEF Undo, RollBackTo, Top, NameOf
<1>9. snap' \in [1..MaxSteps -> SnapTypes] BY <1>3, <1>8
<1>10. mine' \in [Branches -> [Levels -> SUBSET (1..MaxSteps)]] /\ lapsed' \in [Branches -> [Levels -> BOOLEAN]]
  BY <1>8, HandsTypes
<1> QED BY <1>5, <1>7, <1>8, <1>9, <1>10

LEMMA BehindTypes ==
  ASSUME Types, NEW b \in Branches, depth[b] > 0, LeaveBehind(b)
  PROVE  /\ mine' \in [Branches -> [Levels -> SUBSET (1..MaxSteps)]] /\ lapsed' \in [Branches -> [Levels -> BOOLEAN]]
         /\ spare' \in SUBSET (1..MaxSteps)
<1>1. Hands(b, FALSE, TRUE) /\ spare' = spare \cup mine[b][depth[b]] BY DEF LeaveBehind
<1>2. mine \in [Branches -> [Levels -> SUBSET (1..MaxSteps)]] /\ depth[b] \in Levels /\ spare \in SUBSET (1..MaxSteps)
  BY TypesAre
<1>3. mine[b][depth[b]] \in SUBSET (1..MaxSteps)
  <2>1. mine[b] \in [Levels -> SUBSET (1..MaxSteps)] BY <1>2
  <2> QED BY <2>1, <1>2
<1>4. mine' \in [Branches -> [Levels -> SUBSET (1..MaxSteps)]] /\ lapsed' \in [Branches -> [Levels -> BOOLEAN]]
  BY <1>1, HandsTypes
<1> QED BY <1>1, <1>2, <1>3, <1>4

LEMMA TypesNext ==
  Types' <=> /\ state' \in {"well", "broken", "dead"} /\ live' \in SUBSET (1..MaxSteps) /\ db' \in SUBSET (1..MaxSteps)
             /\ setting' \in SetTypes /\ snap' \in [1..MaxSteps -> SnapTypes]
             /\ mode' \in [Branches -> Modes] /\ depth' \in [Branches -> Levels]
             /\ frame' \in [Branches -> [Levels -> FrameTypes]] /\ turn' \in Branches \cup {"nobody"}
             /\ health' \in NoteTypes /\ outcome' \in {"open", "ok", "error", "undone", "lost"}
             /\ steps' \in 0..MaxSteps /\ troubles' \in 0..MaxTroubles
             /\ mine' \in [Branches -> [Levels -> SUBSET (1..MaxSteps)]]
             /\ lapsed' \in [Branches -> [Levels -> BOOLEAN]] /\ spare' \in SUBSET (1..MaxSteps)
             /\ ownFailed' \in BOOLEAN
BY DEF Types, SetTypes, SnapTypes, NoteTypes, FrameTypes, Modes

LEMMA TypesKept ==
  ASSUME Types, Stack, [Next]_vars
  PROVE  Types'
<1>1. ASSUME NEW b \in Branches, Write(b) PROVE Types'
  <2>1. mine' \in [Branches -> [Levels -> SUBSET (1..MaxSteps)]]
    <3>1. mine \in [Branches -> [Levels -> SUBSET (1..MaxSteps)]] /\ depth[b] \in Levels BY TypesAre
    <3>2. mine[b] \in [Levels -> SUBSET (1..MaxSteps)] BY <3>1
    <3>3. steps + 1 \in 1..MaxSteps BY <1>1, ConstantsAssumption, TypesAre DEF Write, Step
    <3>4. mine[b][depth[b]] \cup {steps + 1} \in SUBSET (1..MaxSteps) BY <3>1, <3>2, <3>3
    <3>5. [mine[b] EXCEPT ![depth[b]] = mine[b][depth[b]] \cup {steps + 1}] \in [Levels -> SUBSET (1..MaxSteps)]
      BY <3>1, <3>2, <3>4
    <3>6. mine' = [mine EXCEPT ![b] = [mine[b] EXCEPT ![depth[b]] = mine[b][depth[b]] \cup {steps + 1}]]
      BY <1>1 DEF Write
    <3> QED BY <3>1, <3>5, <3>6
  <2>2. live' \in SUBSET (1..MaxSteps) /\ steps' \in 0..MaxSteps
    BY <1>1, ConstantsAssumption, TypesAre DEF Write, Step
  <2>3. health' \in NoteTypes BY <1>1, TypesAre DEF Write, NoteTypes
  <2> QED BY <1>1, <2>1, <2>2, <2>3, TypesAre, TypesNext DEF Write
<1>2. ASSUME NEW b \in Branches, Fails(b) PROVE Types'
  <2>1. health' \in NoteTypes BY <1>2, TypesAre DEF Fails, NoteTypes
  <2> QED BY <1>2, <2>1, ThrowTypes, CountTypes, TypesAre, TypesNext DEF Fails, history
<1>3. ASSUME NEW b \in Branches, NEW w \in BOOLEAN, Refused(b, w) PROVE Types'
  <2>1. health' \in NoteTypes BY <1>3, TypesAre DEF Refused, NoteTypes
  <2>2. lapsed' \in [Branches -> [Levels -> BOOLEAN]]
    <3>1. lapsed \in [Branches -> [Levels -> BOOLEAN]] /\ depth[b] \in Levels BY TypesAre
    <3>2. [lapsed[b] EXCEPT ![depth[b]] = lapsed[b][depth[b]] \/ w] \in [Levels -> BOOLEAN] BY <3>1
    <3>3. lapsed' = [lapsed EXCEPT ![b] = [lapsed[b] EXCEPT ![depth[b]] = lapsed[b][depth[b]] \/ w]]
      BY <1>3 DEF Refused
    <3> QED BY <3>1, <3>2, <3>3
  <2> QED BY <1>3, <2>1, <2>2, ThrowTypes, CountTypes, TypesAre, TypesNext DEF Refused, connVars
<1>4. ASSUME NEW b \in Branches, Unanswered(b) PROVE Types'
  <2>1. health' \in NoteTypes BY <1>4, TypesAre DEF Unanswered, NoteTypes
  <2> QED BY <1>4, <2>1, ThrowTypes, CountTypes, TypesAre, TypesNext DEF Unanswered, connVars, history
<1>5. ASSUME NEW b \in Branches, ThrowsItself(b) PROVE Types'
  BY <1>5, ThrowTypes, CountTypes, TypesAre, TypesNext DEF ThrowsItself, connVars, history
<1>6. ASSUME NEW b \in Branches, Catches(b) \/ Waits(b) \/ GetsTurn(b) \/ Returns(b) \/ Rejects(b) PROVE Types'
  <2>1. mode' \in [Branches -> Modes]
    BY <1>6, TypesAre DEF Catches, Waits, GetsTurn, Returns, Rejects, Modes
  <2>2. UNCHANGED <<connVars, db, depth, frame, turn, health, outcome, steps, troubles, history>>
    BY <1>6 DEF Catches, Waits, GetsTurn, Returns, Rejects
  <2> QED BY <2>1, <2>2, TypesAre, TypesNext DEF connVars, history
<1>7. ASSUME ConnectionDies PROVE Types'
  BY <1>7, CountTypes, TypesAre, TypesNext DEF ConnectionDies, codeVars, history
<1>8. ASSUME NEW b \in Branches, NEW c \in Kinds, Enter(b, c) PROVE Types'
  <2>1. UNCHANGED <<state, live, db, health, outcome, troubles, history>> /\ Step BY <1>8 DEF Enter
  <2>2. CASE state # "well"
    <3>1. Throw(b) /\ UNCHANGED <<setting, snap, depth, frame, turn>> BY <1>8, <2>2 DEF Enter
    <3> QED BY <2>1, <3>1, ThrowTypes, CountTypes, TypesAre, TypesNext DEF history
  <2>3. CASE state = "well"
    <3>1. depth[b] + 1 \in Levels /\ steps + 1 \in 1..MaxSteps /\ steps + 1 \in 0..MaxSteps
      BY <1>8, ConstantsAssumption, TypesAre DEF Enter, Step, Levels
    <3>2. depth' = [depth EXCEPT ![b] = depth[b] + 1] BY <1>8, <2>3 DEF Enter
    <3>3. depth' \in [Branches -> Levels] BY <3>1, <3>2, TypesAre
    <3>4. frame' \in [Branches -> [Levels -> FrameTypes]]
      <4>1. frame \in [Branches -> [Levels -> FrameTypes]] BY TypesAre
      <4>2. [kind |-> c, name |-> steps + 1, before |-> health] \in FrameTypes BY <3>1, TypesAre DEF FrameTypes
      <4>3. frame' = [frame EXCEPT ![b] = [frame[b] EXCEPT ![depth[b] + 1] = [kind |-> c, name |-> steps + 1, before |-> health]]]
        BY <1>8, <2>3 DEF Enter
      <4> QED BY <4>1, <4>2, <4>3
    <3>5. snap' \in [1..MaxSteps -> SnapTypes]
      <4>1. [known |-> TRUE, live |-> live, setting |-> setting] \in SnapTypes BY TypesAre DEF SnapTypes
      <4>2. snap \in [1..MaxSteps -> SnapTypes] BY TypesAre
      <4>3. snap' = IF c \in SaveKinds THEN [snap EXCEPT ![steps + 1] = [known |-> TRUE, live |-> live, setting |-> setting]] ELSE snap
        BY <1>8, <2>3 DEF Enter, SaveKinds
      <4> QED BY <4>1, <4>2, <4>3
    <3>6. setting' \in SetTypes
      <4>1. setting.org \in {"owner", "serving"} /\ setting.all \in BOOLEAN BY TypesAre DEF SetTypes
      <4>2. setting' = [org |-> IF c = "serve" THEN "serving" ELSE setting.org, all |-> setting.all \/ c = "widen"]
        BY <1>8, <2>3 DEF Enter
      <4> QED BY <4>1, <4>2 DEF SetTypes
    <3>7. turn' \in Branches \cup {"nobody"} /\ mode' = mode BY <1>8, <2>3, TypesAre DEF Enter
    <3> QED BY <2>1, <3>3, <3>4, <3>5, <3>6, <3>7, CountTypes, TypesAre, TypesNext DEF history
  <2> QED BY <2>2, <2>3
<1>9. ASSUME NEW b \in Branches, Leave(b) PROVE Types'
  <2>1. depth[b] > 0 /\ Pop(b) /\ Hands(b, TRUE, TRUE) /\ UNCHANGED <<state, live, db, mode, health, outcome, steps, troubles, spare, ownFailed>>
    BY <1>9 DEF Leave
  <2>2. setting' \in SetTypes /\ snap' \in [1..MaxSteps -> SnapTypes]
    BY <1>9, PutBackTypes, ReleaseTypes, TypesAre DEF Leave
  <2>3. mine' \in [Branches -> [Levels -> SUBSET (1..MaxSteps)]] /\ lapsed' \in [Branches -> [Levels -> BOOLEAN]]
    BY <2>1, HandsTypes
  <2> QED BY <2>1, <2>2, <2>3, PopTypes, TypesAre, TypesNext
<1>10. ASSUME NEW b \in Branches, Unwind(b) PROVE Types'
  <2>1. depth[b] > 0 /\ Throw(b) /\ Pop(b) /\ UNCHANGED <<db, outcome, steps, troubles>> BY <1>10 DEF Unwind
  <2>2. /\ depth' \in [Branches -> Levels] /\ frame' \in [Branches -> [Levels -> FrameTypes]]
        /\ turn' \in Branches \cup {"nobody"} /\ mode' \in [Branches -> Modes]
    BY <2>1, PopTypes, ThrowTypes
  <2>3. CASE Undo(b) BY <2>1, <2>2, <2>3, UndoTypes, TypesAre, TypesNext
  <2>4. CASE ~Undo(b)
    <3>1. LeaveBehind(b) /\ state' \in {state, "broken"} /\ UNCHANGED <<live, health, ownFailed>>
      BY <1>10, <2>4 DEF Unwind
    <3>2. setting' \in SetTypes /\ snap' \in [1..MaxSteps -> SnapTypes]
      BY <1>10, <2>4, PutBackTypes, ReleaseTypes, TypesAre DEF Unwind
    <3> QED BY <2>1, <2>2, <3>1, <3>2, BehindTypes, TypesAre, TypesNext
  <2> QED BY <2>3, <2>4
<1>14. ASSUME NEW b \in Branches, NEW c \in Kinds, EnteringFails(b, c) PROVE Types'
  <2>1. Throw(b) /\ Step /\ Trouble /\ state' = "broken" /\ ownFailed' = TRUE
        /\ UNCHANGED <<live, setting, snap, db, depth, frame, turn, health, outcome, mine, lapsed, spare>>
    BY <1>14 DEF EnteringFails
  <2> QED BY <2>1, ThrowTypes, CountTypes, TypesAre, TypesNext
<1>15. ASSUME NEW b \in Branches, LeavingFails(b) PROVE Types'
  <2>1. depth[b] > 0 /\ Throw(b) /\ Pop(b) /\ Trouble /\ UNCHANGED <<db, outcome, steps>> BY <1>15 DEF LeavingFails
  <2>2. /\ depth' \in [Branches -> Levels] /\ frame' \in [Branches -> [Levels -> FrameTypes]]
        /\ turn' \in Branches \cup {"nobody"} /\ mode' \in [Branches -> Modes] /\ troubles' \in 0..MaxTroubles
    BY <2>1, PopTypes, ThrowTypes, CountTypes
  <2>3. CASE Undo(b) BY <2>1, <2>2, <2>3, UndoTypes, TypesAre, TypesNext
  <2>4. CASE ~Undo(b)
    <3>1. state' = "broken" /\ ownFailed' = TRUE /\ LeaveBehind(b) /\ UNCHANGED <<live, setting, snap, health>>
      BY <1>15, <2>4 DEF LeavingFails
    <3> QED BY <2>1, <2>2, <3>1, BehindTypes, TypesAre, TypesNext
  <2> QED BY <2>3, <2>4
<1>11. ASSUME Commit PROVE Types'
  <2>1. UNCHANGED <<connVars, codeVars, steps, history>> BY <1>11 DEF Commit
  <2>2. db' \in SUBSET (1..MaxSteps) /\ troubles' \in 0..MaxTroubles /\ outcome' \in {"open", "ok", "error", "undone", "lost"}
    BY <1>11, CountTypes, TypesAre DEF Commit, AfterRollback
  <2> QED BY <2>1, <2>2, TypesAre, TypesNext DEF connVars, codeVars, history
<1>12. ASSUME Rollback PROVE Types'
  BY <1>12, TypesAre, TypesNext DEF Rollback, connVars, codeVars, history
<1>13. ASSUME UNCHANGED vars PROVE Types'
  BY <1>13, TypesAre, TypesNext DEF vars, connVars, codeVars, history
<1> QED BY <1>1, <1>2, <1>3, <1>4, <1>5, <1>6, <1>7, <1>8, <1>9, <1>10, <1>11, <1>12, <1>13, <1>14, <1>15 DEF Next, BranchGoesOn

-----------------------------------------------------------------------------
(* Every step keeps the invariant.                                         *)

LEMMA Unwinds ==
  ASSUME IInv, Types', NEW b \in Branches, Unwind(b)
  PROVE  IInv'
<1> USE DEF IInv
<1> DEFINE d == depth[b]
<1>1. /\ outcome = "open" /\ d > 0 /\ Throw(b) /\ Pop(b) /\ UNCHANGED <<db, outcome, steps, troubles>>
  BY DEF Unwind, Throws, CannotLeave, Runs
<1>2. d \in 1..d /\ NameOf(b, d) \in 1..steps /\ KindOf(b, d) \in Kinds
  <2>1. d \in 1..d BY <1>1, ConstantsAssumption, TypesAre DEF Levels
  <2> QED BY <2>1 DEF Stack
<1>3. Top(b) = frame[b][d] /\ Top(b).kind = KindOf(b, d) /\ Top(b).name = NameOf(b, d) BY DEF Top, KindOf, NameOf
<1>4. KindOf(b, d) \in SaveKinds => Known(b) BY <1>2, <1>3 DEF Saved, Known
<1>5. CASE KindOf(b, d) \in SaveKinds /\ Undo(b) BY <1>1, <1>5, Undoes
<1>6. CASE /\ KindOf(b, d) = "recovery" /\ state = "well" /\ Release(NameOf(b, d)) /\ LeaveBehind(b)
           /\ UNCHANGED <<state, live, setting, health, ownFailed>>
  <2>1. \A n \in 1..MaxSteps : n < NameOf(b, d) => snap'[n] = snap[n] BY <1>6 DEF Release
  <2>2. Shows(setting', b, d - 1) BY <1>1, <1>6, SeenAround DEF SaveKinds
  <2> QED BY <1>1, <1>6, <2>1, <2>2, LeavesBehind
<1>7. CASE /\ KindOf(b, d) \in {"widen", "serve"} /\ state = "well" /\ PutBack(KindOf(b, d)) /\ LeaveBehind(b)
           /\ UNCHANGED <<state, live, snap, health, ownFailed>>
  <2>1. Shows(setting', b, d - 1) BY <1>1, <1>7, SeenAround DEF SaveKinds, PutBack
  <2> QED BY <1>1, <1>7, <2>1, LeavesBehind
<1>8. CASE state # "well" /\ LeaveBehind(b) /\ UNCHANGED <<state, live, setting, snap, health, ownFailed>>
  BY <1>1, <1>8, LeavesBehind
<1> QED
  <2>1. \/ KindOf(b, d) \in SaveKinds /\ Undo(b)
        \/ /\ KindOf(b, d) = "recovery" /\ state = "well" /\ Release(NameOf(b, d)) /\ LeaveBehind(b)
           /\ UNCHANGED <<state, live, setting, health, ownFailed>>
        \/ /\ KindOf(b, d) \in {"widen", "serve"} /\ state = "well" /\ PutBack(KindOf(b, d)) /\ LeaveBehind(b)
           /\ UNCHANGED <<state, live, snap, health, ownFailed>>
        \/ state # "well" /\ LeaveBehind(b) /\ UNCHANGED <<state, live, setting, snap, health, ownFailed>>
        \/ Saves(b) /\ ~Known(b)
    BY <1>3 DEF Unwind, SaveKinds
  <2> QED BY <2>1, <1>3, <1>4, <1>5, <1>6, <1>7, <1>8 DEF Saves, SaveKinds

LEMMA UnwindsBadly ==
  ASSUME IInv, Types', NEW b \in Branches, LeavingFails(b)
  PROVE  IInv'
<1> USE DEF IInv
<1> DEFINE d == depth[b]
<1>1. /\ outcome = "open" /\ d > 0 /\ Throw(b) /\ Pop(b) /\ UNCHANGED <<db, outcome, steps>>
  BY DEF LeavingFails, Throws, Runs
<1>2. CASE Saves(b) /\ Undo(b)
  <2>1. KindOf(b, d) \in SaveKinds BY <1>2 DEF Saves, Top, KindOf, SaveKinds
  <2> QED BY <1>1, <1>2, <2>1, Undoes
<1>3. CASE state' = "broken" /\ ownFailed' = TRUE /\ LeaveBehind(b) /\ UNCHANGED <<live, setting, snap, health>>
  BY <1>1, <1>3, LeavesBehind
<1> QED BY <1>2, <1>3 DEF LeavingFails

(* The steps that are quiet in the sense of the lemma above.               *)
LEMMA QuietOnes ==
  ASSUME IInv, Types', NEW b \in Branches,
         \/ Fails(b) \/ Unanswered(b) \/ ThrowsItself(b) \/ Catches(b) \/ \E w \in BOOLEAN : Refused(b, w)
         \/ Waits(b) \/ GetsTurn(b) \/ Returns(b) \/ Rejects(b)
         \/ \E c \in Kinds : (Enter(b, c) /\ state # "well") \/ EnteringFails(b, c)
  PROVE  IInv'
<1> USE DEF IInv
<1>1. mode \in [Branches -> Modes] /\ steps \in Nat /\ health \in NoteTypes /\ depth \in [Branches -> Levels]
  BY TypesAre, ConstantsAssumption
<1>2. outcome = "open" /\ UNCHANGED <<live, setting, snap, db, depth, frame, turn, mine, spare, outcome>>
  BY DEF Fails, Unanswered, ThrowsItself, Catches, Refused, Waits, GetsTurn, Returns, Rejects, Enter, EnteringFails, Runs, Throws,
         connVars, history
<1>3. steps <= steps'
  <2>1. Step \/ steps' = steps
    BY DEF Fails, Unanswered, ThrowsItself, Catches, Refused, Waits, GetsTurn, Returns, Rejects, Enter, EnteringFails
  <2> QED BY <2>1, <1>1 DEF Step
<1>4. /\ state' = "well" => state = "well" /\ ~health'.failed /\ ~ownFailed'
      /\ state' = "broken" => health'.failed \/ ownFailed'
  <2>1. CASE Fails(b) BY <2>1, <1>1 DEF Fails, NoteTypes
  <2>2. CASE Unanswered(b) BY <2>2, <1>1 DEF Unanswered, connVars
  <2>3. CASE \E w \in BOOLEAN : Refused(b, w) BY <2>3, <1>1 DEF Refused, connVars, NoteTypes, Noted
  <2>4. CASE ThrowsItself(b) \/ Catches(b) \/ Waits(b) \/ GetsTurn(b) \/ Returns(b) \/ Rejects(b)
    BY <2>4 DEF ThrowsItself, Catches, Waits, GetsTurn, Returns, Rejects, connVars, history, Noted
  <2>5. CASE \E c \in Kinds : Enter(b, c) /\ state # "well" BY <2>5 DEF Enter, Noted, history
  <2>6. CASE \E c \in Kinds : EnteringFails(b, c) BY <2>6 DEF EnteringFails
  <2> QED BY <2>1, <2>2, <2>3, <2>4, <2>5, <2>6
<1>5. (health.wrote => health'.wrote) /\ (health.refused => health'.refused)
  <2>1. CASE Fails(b) \/ Unanswered(b) BY <2>1, <1>1 DEF Fails, Unanswered, NoteTypes
  <2>2. CASE \E w \in BOOLEAN : Refused(b, w) BY <2>2, <1>1 DEF Refused, NoteTypes
  <2>3. CASE health' = health BY <2>3
  <2> QED BY <2>1, <2>2, <2>3 DEF ThrowsItself, Catches, Waits, GetsTurn, Returns, Rejects, Enter, EnteringFails
<1>6. /\ mode[b] \notin {"ended", "failed"} /\ \A k \in Branches : k # b => mode'[k] = mode[k]
      /\ mode'[b] \in {"runs", "throws"} \/ depth[b] = 0
  <2>1. CASE Waits(b) \/ Returns(b) \/ Rejects(b) BY <2>1, <1>1 DEF Waits, Returns, Rejects, Runs, Throws
  <2>2. CASE Catches(b) \/ GetsTurn(b) BY <2>2, <1>1 DEF Catches, GetsTurn, Throws
  <2>3. CASE Runs(b) /\ Throw(b) BY <2>3, <1>1 DEF Runs, Throw
  <2> QED BY <2>1, <2>2, <2>3 DEF Fails, Unanswered, ThrowsItself, Refused, Enter, EnteringFails
<1>7. \A k \in Branches : mode'[k] \in {"waits", "ended", "failed"} => depth[k] = 0
  BY <1>6 DEF TakesTurns
<1>8. \A k \in Branches : mode[k] \in {"ended", "failed"} => mode'[k] = mode[k] BY <1>6
<1>9. \A k \in Branches, e \in Levels : lapsed'[k][e] =>
        \/ lapsed[k][e]
        \/ health'.refused /\ state' # "well" /\ e = depth[k] /\ ~Beside(k)
  <2>1. CASE \E w \in BOOLEAN : Refused(b, w)
    <3>1. PICK w \in BOOLEAN : Refused(b, w) BY <2>1
    <3>2. /\ lapsed' = [lapsed EXCEPT ![b] = [lapsed[b] EXCEPT ![depth[b]] = lapsed[b][depth[b]] \/ w]]
          /\ health' = [health EXCEPT !.refused = health.refused \/ w] /\ state = "broken" /\ state' = state
          /\ w => ~Beside(b)
      BY <3>1 DEF Refused, connVars
    <3>3. lapsed \in [Branches -> [Levels -> BOOLEAN]] BY TypesAre
    <3>4. \A k \in Branches, e \in Levels : k # b \/ e # depth[b] => lapsed'[k][e] = lapsed[k][e]
      <4>1. TAKE k \in Branches, e \in Levels
      <4>2. CASE k # b BY <4>2, <3>2, <3>3
      <4>3. CASE k = b /\ e # depth[b] BY <4>3, <3>2, <3>3
      <4> QED BY <4>2, <4>3
    <3>5. lapsed'[b][depth[b]] => lapsed[b][depth[b]] \/ w
      <4>1. lapsed[b] \in [Levels -> BOOLEAN] /\ depth[b] \in Levels BY <3>3, <1>1
      <4> QED BY <4>1, <3>2, <3>3
    <3>6. w => health'.refused BY <3>2, <1>1 DEF NoteTypes
    <3> QED BY <3>2, <3>4, <3>5, <3>6
  <2>2. CASE lapsed' = lapsed BY <2>2
  <2> QED BY <2>1, <2>2 DEF Fails, Unanswered, ThrowsItself, Catches, Waits, GetsTurn, Returns, Rejects, Enter, EnteringFails, history
<1> QED BY <1>2, <1>3, <1>4, <1>5, <1>7, <1>8, <1>9, Quiet

LEMMA InitIInv == Init => IInv
<1> SUFFICES ASSUME Init PROVE IInv OBVIOUS
<1>1. Types BY InitTypes
<1>2. \A k \in Branches : depth[k] = 0 /\ mode[k] = "runs" /\ \A e \in Levels : mine[k][e] = {} /\ ~lapsed[k][e]
  BY DEF Init
<1>3. Stack BY <1>2 DEF Stack
<1>4. TakesTurns BY <1>2 DEF TakesTurns, Init
<1>5. Saved BY <1>2 DEF Saved
<1>6. Noted BY <1>2 DEF Noted, Init, Blank
<1>7. Held BY <1>2 DEF Held, Init
<1>8. Seen BY <1>2 DEF Seen, Shows, Init, Own
<1>9. Ends BY DEF Ends, Init
<1> QED BY <1>1, <1>3, <1>4, <1>5, <1>6, <1>7, <1>8, <1>9 DEF IInv

LEMMA NextIInv == IInv /\ [Next]_vars => IInv'
<1> SUFFICES ASSUME IInv, [Next]_vars PROVE IInv' OBVIOUS
<1> USE DEF IInv
<1>0. Types' BY TypesKept
<1>1. ASSUME NEW b \in Branches, Write(b) PROVE IInv' BY <1>0, <1>1, Writes
<1>2. ASSUME NEW b \in Branches, NEW c \in Kinds, Enter(b, c), state = "well" PROVE IInv' BY <1>0, <1>2, Opens
<1>3. ASSUME NEW b \in Branches, Leave(b) PROVE IInv' BY <1>0, <1>3, Leaves
<1>4. ASSUME NEW b \in Branches, Unwind(b) PROVE IInv' BY <1>0, <1>4, Unwinds
<1>12. ASSUME NEW b \in Branches, LeavingFails(b) PROVE IInv' BY <1>0, <1>12, UnwindsBadly
<1>5. ASSUME NEW b \in Branches,
             \/ Fails(b) \/ Unanswered(b) \/ ThrowsItself(b) \/ Catches(b) \/ \E w \in BOOLEAN : Refused(b, w)
             \/ Waits(b) \/ GetsTurn(b) \/ Returns(b) \/ Rejects(b)
             \/ \E c \in Kinds : (Enter(b, c) /\ state # "well") \/ EnteringFails(b, c)
      PROVE IInv'
  BY <1>0, <1>5, QuietOnes
<1>6. ASSUME UNCHANGED <<live, setting, snap, codeVars, steps, history>>, state' \in {state, "dead"},
             Ends'
      PROVE IInv'
  <2>1. Stack' /\ TakesTurns' BY <1>6 DEF Stack, TakesTurns, Alone, KindOf, NameOf, Others, codeVars, history
  <2>6. UNCHANGED <<snap, frame, depth, mine, lapsed, spare>> BY <1>6 DEF codeVars, history
  <2>2. Saved'
    <3>1. \A b \in Branches : \A d \in 1..depth[b] : KindOf(b, d) \in SaveKinds =>
            \A k \in Branches, e \in Levels : Around(b, d, k, e) => mine'[k][e] = mine[k][e] /\ ~lapsed'[k][e]
      BY <2>6 DEF Saved
    <3> QED BY <2>6, <3>1, SavedKept
  <2>3. Noted' BY <1>6 DEF Noted, codeVars, history
  <2>4. Held' BY <1>6 DEF Held, history
  <2>5. Seen' BY <1>6 DEF Seen, Shows, KindOf, Others, codeVars
  <2> QED BY <1>0, <1>6, <2>1, <2>2, <2>3, <2>4, <2>5
<1>7. CASE ConnectionDies BY <1>6, <1>7 DEF ConnectionDies, Ends, codeVars, history
<1>8. CASE Commit
  <2>1. UNCHANGED <<connVars, codeVars, steps, history>> BY <1>8 DEF Commit
  <2>2. outcome' # "open" BY <1>8 DEF Commit, AfterRollback
  <2>3. 0 \in Levels BY ConstantsAssumption DEF Levels
  <2>4. outcome' = "ok" => \A k \in Branches, e \in Levels : mine[k][e] \subseteq db' /\ ~lapsed[k][0]
    <3>1. CASE state = "well" /\ db' = live BY <3>1, <2>3 DEF Held, Noted
    <3>2. CASE state = "broken" /\ outcome' \in AfterRollback BY <3>2, <2>3 DEF Noted, AfterRollback
    <3> QED BY <1>8, <3>1, <3>2 DEF Commit
  <2>5. Ends' BY <2>1, <2>2, <2>4 DEF Ends, history
  <2> QED BY <1>6, <2>1, <2>5 DEF connVars
<1>9. CASE Rollback
  <2>1. Ends' BY <1>9 DEF Rollback, Ends
  <2> QED BY <1>6, <1>9, <2>1 DEF Rollback, connVars
<1>10. CASE UNCHANGED vars
  <2>1. Ends' BY <1>10 DEF vars, history, Ends
  <2> QED BY <1>6, <1>10, <2>1 DEF vars, connVars
<1>11. ASSUME NEW b \in Branches, BranchGoesOn(b) PROVE IInv'
  <2>1. CASE \E c \in Kinds : Enter(b, c) BY <2>1, <1>2, <1>5
  <2> QED BY <2>1, <1>1, <1>3, <1>4, <1>5, <1>11, <1>12 DEF BranchGoesOn
<1> QED BY <1>7, <1>8, <1>9, <1>10, <1>11 DEF Next

LEMMA Invariance == Spec => []IInv
<1>1. Init => IInv BY InitIInv
<1>2. IInv /\ [Next]_vars => IInv' BY NextIInv
<1> QED BY <1>1, <1>2, PTL DEF Spec

-----------------------------------------------------------------------------
(* The results.                                                            *)

(* The state is well-formed, and one branch at a time is in blocks         *)
(* (inTurn).                                                               *)
THEOREM TypeCorrect == Spec => []TypeOK
<1>1. IInv => TypeOK BY OneBranch DEF IInv, TypeOK
<1> QED BY <1>1, Invariance, PTL

(* Work that is told it is done has what it was told is written, and none  *)
(* of its writes was refused (withClient, noted).                          *)
THEOREM DoneIsSaved == Spec => []DoneMeansSaved
<1>1. IInv => DoneMeansSaved
  <2>1. SUFFICES ASSUME IInv, outcome = "ok" PROVE Told \subseteq db /\ \A b \in Branches : ~lapsed[b][0]
    BY DEF DoneMeansSaved
  <2>2. 0 \in Levels BY ConstantsAssumption DEF Levels
  <2>3. \A k \in Branches, e \in Levels : mine[k][e] \subseteq db /\ ~lapsed[k][0] BY <2>1 DEF IInv, Ends
  <2> QED BY <2>2, <2>3 DEF Told
<1> QED BY <1>1, Invariance, PTL

(* Blocks never break the transaction by the order they open and end in:   *)
(* a statement that failed did, the work's, which the record knows, or a   *)
(* block's own; and the record keeps no failure that was undone            *)
(* (withSavepoint, withRecovery, inTurn, noted).                           *)
THEOREM OnlyFailuresBreak == Spec => []BrokenByAFailure
<1>1. IInv => BrokenByAFailure BY DEF IInv, Noted, BrokenByAFailure
<1> QED BY <1>1, Invariance, PTL

(* A statement, wherever it lands, is made for the business its code is    *)
(* working for, and for every business only while that is asked, whatever  *)
(* was switched, nested, undone or failed before (withServingTenant,       *)
(* acrossEveryBusiness, restoreCurrentOrg).                                *)
THEOREM ItsOwnBusiness == Spec => []RunsAsItsBusiness
<1>1. ASSUME IInv PROVE RunsAsItsBusiness
  <2> USE <1>1 DEF IInv
  <2> SUFFICES ASSUME state = "well"
               PROVE  /\ \A b \in Branches : Runs(b) => AsItsBusiness(b)
                      /\ setting.all <=> Widened
                      /\ (\A b \in Branches : depth[b] = 0) => setting = Own
    BY DEF RunsAsItsBusiness
  <2>0. OneInBlocks BY OneBranch
  <2>1. /\ setting \in SetTypes /\ depth \in [Branches -> Levels]
        /\ \A k \in Branches : depth[k] \in Nat
    BY TypesAre, ConstantsAssumption DEF Levels
  <2>2. PICK w \in Branches : \A k \in Others(w) : depth[k] = 0
    <3>1. CASE \E w \in Branches : depth[w] > 0 BY <3>1, <2>0, <2>1 DEF OneInBlocks, Others
    <3>2. CASE \A w \in Branches : ~(depth[w] > 0) BY <3>2, <2>1, ConstantsAssumption DEF Others
    <3> QED BY <3>1, <3>2
  <2>3. /\ setting.all <=> In(w, "widen")
        /\ setting.org = "serving" <=> In(w, "serve")
    BY <2>2 DEF Seen, Shows, KindOf, In
  <2>4. \A k \in Others(w), c \in Kinds : ~In(k, c) BY <2>2 DEF In
  <2>5. setting.all <=> Widened BY <2>3, <2>4 DEF Widened, Others, Kinds
  <2>6. ASSUME NEW b \in Branches, Runs(b) PROVE AsItsBusiness(b)
    <3>1. ASSUME b # w PROVE ~In(w, "serve") /\ ~In(b, "serve")
      <4>1. ~Alone(w) BY <2>6, <3>1 DEF Alone, Others, Runs
      <4>2. ~In(w, "serve") BY <4>1 DEF TakesTurns, In, KindOf
      <4> QED BY <4>2, <2>4, <3>1 DEF Others, Kinds
    <3> QED BY <3>1, <2>3, <2>1 DEF AsItsBusiness, SetTypes
  <2>7. ASSUME \A b \in Branches : depth[b] = 0 PROVE setting = Own
    <3>1. ~In(w, "widen") /\ ~In(w, "serve") BY <2>7 DEF In
    <3> QED BY <3>1, <2>3, <2>1 DEF SetTypes, Own
  <2> QED BY <2>5, <2>6, <2>7
<1> QED BY <1>1, Invariance, PTL

(* A branch that waits waits for one that works: the siblings of a         *)
(* Promise.all whose blocks take turns are never all waiting (inTurn).     *)
THEOREM NobodyWaitsInACircle == Spec => []WaitsForAWorker
<1>1. ASSUME IInv PROVE WaitsForAWorker
  <2> USE <1>1 DEF IInv
  <2> SUFFICES ASSUME NEW b \in Branches, mode[b] = "waits", turn # "nobody"
               PROVE  turn \in Others(b) /\ depth[turn] > 0 /\ mode[turn] \in {"runs", "throws"}
    BY DEF WaitsForAWorker
  <2>1. depth[b] = 0 /\ turn \in Branches /\ depth[turn] > 0 BY DEF TakesTurns
  <2>2. turn # b BY <2>1
  <2>3. mode[turn] \notin {"waits", "ended", "failed"} BY <2>1 DEF TakesTurns
  <2>4. mode[turn] \in {"runs", "waits", "throws", "ended", "failed"} BY <2>1 DEF Types
  <2> QED BY <2>1, <2>2, <2>3, <2>4 DEF Others
<1> QED BY <1>1, Invariance, PTL

(* A piece of work is there whole, when it is told it is done, not at all, *)
(* when it is told that nothing was saved, and never in part (withClient). *)
THEOREM AllOrNothingHolds == Spec => ImplementsAllOrNothing
<1>1. Init => Whole!Init
  <2>1. SUFFICES ASSUME Init PROVE Told = {} /\ spare = {} /\ db = {} /\ outcome = "open" BY DEF Whole!Init
  <2> QED BY <2>1 DEF Init, Told
<1>2. IInv /\ IInv' /\ [Next]_vars => [Whole!Next]_(Whole!vars)
  <2> SUFFICES ASSUME IInv, IInv', [Next]_vars PROVE [Whole!Next]_(Whole!vars) OBVIOUS
  <2> USE DEF IInv
  <2>1. Told' \in SUBSET (1..MaxSteps) /\ spare' \in SUBSET (1..MaxSteps)
    <3>1. mine' \in [Branches -> [Levels -> SUBSET (1..MaxSteps)]] /\ spare' \in SUBSET (1..MaxSteps) BY TypesNext
    <3>2. \A k \in Branches, e \in Levels : mine'[k][e] \in SUBSET (1..MaxSteps) BY <3>1
    <3> QED BY <3>1, <3>2 DEF Told
  <2>2. CASE outcome = "open" /\ UNCHANGED <<db, outcome>> BY <2>1, <2>2 DEF Whole!Next, Whole!GoesOn
  <2>3. CASE UNCHANGED vars BY <2>3 DEF vars, history, Told, Whole!vars
  <2>4. CASE Rollback
    <3>1. Told' = Told /\ spare' = spare BY <2>4 DEF Rollback, history, Told
    <3> QED BY <2>4, <3>1 DEF Rollback, Whole!Next, Whole!Fails
  <2>5. CASE Commit
    <3>1. Told' = Told /\ spare' = spare /\ outcome = "open" BY <2>5 DEF Commit, history, Told
    <3>2. CASE outcome' \in {"error", "undone", "lost"} /\ db' = db BY <3>1, <3>2 DEF Whole!Next, Whole!Fails
    <3>3. CASE outcome' = "ok" \/ (outcome' = "error" /\ db' = live)
      <4>1. \A k \in Branches, e \in Levels : mine'[k][e] = mine[k][e] BY <2>5 DEF Commit, history
      <4>2. \A k \in Branches, e \in Levels : mine'[k][e] \subseteq db' BY <3>3, <4>1 DEF Ends, Held
      <4>3. Told \subseteq db' BY <3>1, <4>2 DEF Told
      <4>4. db' \subseteq Told \cup spare
        <5>1. CASE db' = live BY <5>1 DEF Held, Told
        <5>2. CASE db' = db BY <5>2, <3>1 DEF Ends
        <5> QED BY <2>5, <5>1, <5>2 DEF Commit
      <4>5. db' \in SUBSET (1..MaxSteps) BY TypesNext
      <4> QED BY <3>1, <3>3, <4>3, <4>4, <4>5 DEF Whole!Next, Whole!Saves
    <3> QED BY <2>5, <3>2, <3>3 DEF Commit, AfterRollback
  <2>6. CASE ConnectionDies BY <2>2, <2>6 DEF ConnectionDies
  <2>7. ASSUME NEW b \in Branches, BranchGoesOn(b) PROVE outcome = "open" /\ UNCHANGED <<db, outcome>>
    BY <2>7 DEF BranchGoesOn, Write, Fails, Unanswered, ThrowsItself, Catches, Refused, Enter, EnteringFails, Waits, GetsTurn,
                Leave, Unwind, LeavingFails, Returns, Rejects, Runs, Throws, CannotLeave
  <2> QED BY <2>2, <2>3, <2>4, <2>5, <2>6, <2>7 DEF Next
<1> QED BY <1>1, <1>2, Invariance, PTL DEF Spec, Whole!Spec, ImplementsAllOrNothing
===========================================================================
