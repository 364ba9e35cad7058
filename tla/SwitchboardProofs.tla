------------------------- MODULE SwitchboardProofs -------------------------
(* What holds of the switchboard for any number of businesses, messages,   *)
(* menus, changes and failures.                                            *)
EXTENDS Switchboard, FiniteSetTheorems, TLAPS

Early == {"custody", "look", "place", "route", "ask", "note"}
Late  == {"serve", "fallback", "flag", "commit"}

(* Until it is placed or asked, a message's transaction has changed no     *)
(* routing; what it then has is the committed row, a menu noted, or a new  *)
(* route.                                                                  *)
Custody ==
  /\ pc \in Early => tx.routed = conv.routed /\ tx.prompt = conv.prompt /\ tx.attempts = conv.attempts
  /\ pc # "idle" => met[cur] \in {"said", "open"}
  /\ pc # "idle" /\ conv.handoff /\ ~tx.handoff => shaken \/ staff[Answering(conv)] = "none"

(* What the message has read of the routing is the committed one, unless    *)
(* it was read blind or its business is gone.                              *)
Placing ==
  /\ pc \in {"idle", "custody", "look"} => why = "fresh"
  /\ pc \in {"place", "ask"} /\ why # "blind" => seen.prompt = conv.prompt /\ seen.attempts = conv.attempts
  /\ pc \in {"place", "ask"} /\ why = "blind" => seen.prompt = "never" /\ seen.routed = NoOne
  /\ pc = "place" /\ why = "fresh" => seen.routed = conv.routed
  /\ pc = "route" /\ conv.routed # NoOne => why # "fresh"
  /\ pc \in Late /\ conv.routed # NoOne /\ tx.routed # conv.routed => why # "fresh"

(* A menu that was noted was counted, and is on the screen.                *)
Noted(row) == row.prompt # "never" => row.attempts > 0 /\ screen # "none"

Menus ==
  /\ Noted(conv)
  /\ pc \in Late => IF RoutedAnew THEN tx.prompt = "never" ELSE Noted(tx)

(* The menus that left are counted in the row or paid for by a failure, and *)
(* a menu on the screen that the row does not know of is paid for too.     *)
Known(row) == screen = "fresh" /\ row.prompt # "fresh" => repeats < troubles

Patience ==
  /\ AskedPatiently
  /\ asked <= conv.attempts + troubles + 1
  /\ pc \notin {"note", "commit"} => asked <= conv.attempts + troubles
  /\ pc \in {"idle"} \cup (Early \ {"note"}) => Known(conv)
  /\ pc \in {"place", "ask"} /\ why = "blind" => asked < MaxAttempts + troubles /\ repeats < troubles
  /\ pc = "ask" => seen.prompt # "fresh" /\ seen.attempts < MaxAttempts
  /\ pc \in Late => RoutedAnew \/ (asked <= tx.attempts + troubles /\ Known(tx))

(* While no business comes or goes, the menu on the screen and the list a   *)
(* message has read are the businesses on the number.                      *)
Shown ==
  /\ ~relisted => \A o \in menu : o[2] \in listed /\ o[1] = Place(o[2], listed)
  /\ pc \in {"place", "ask"} /\ ~relisted => list = listed
  /\ ReadsTheMenuShown

Inv == TypeOK /\ Custody /\ Placing /\ Menus /\ Patience /\ Shown

-----------------------------------------------------------------------------
(* Types.                                                                  *)

LEMMA NewRowIsARow == NewRow \in Row
BY DEF NewRow, Row

LEMMA BlankIsAText == Blank \in Text
BY DEF Blank, Text

LEMMA OlderIsARow == ASSUME NEW row \in Row PROVE Older(row) \in Row
BY DEF Older, Row

LEMMA PlaceIsANumber ==
  ASSUME NEW b \in Businesses, NEW L \in SUBSET Businesses
  PROVE  Place(b, L) \in Nat
<1>1. IsFiniteSet({c \in L : Order[c] <= Order[b]})
  BY ConstantsAssumption, FS_Subset
<1> QED BY <1>1, FS_CardinalityType DEF Place

LEMMA InitTypes == Init => TypeOK
<1> SUFFICES ASSUME Init PROVE TypeOK
  OBVIOUS
<1>1. PICK s \in Starts : active = s.active /\ listed = s.listed /\ staff = s.staff /\ wrote = s.wrote
  BY DEF Init
<1>2. s \in Start /\ s.listed \subseteq s.active
  BY ConstantsAssumption
<1>3. active \subseteq Businesses /\ listed \subseteq active /\ staff \in [Businesses -> Staff] /\ wrote \in Businesses \cup {NoOne}
  BY <1>1, <1>2 DEF Start
<1>4. said \in [Messages -> Text] /\ met \in [Messages -> {"unsaid", "said", "open", "settled"}]
  BY BlankIsAText DEF Init
<1>5. menu \in SUBSET (Nat \X Businesses) /\ conv \in Row /\ Hand
  BY NewRowIsARow, ConstantsAssumption DEF Init, Hand
<1>6. asked = 0 /\ repeats = 0 /\ changes = 0 /\ troubles = 0 /\ screen = "none" /\ relisted = FALSE /\ pc = "idle"
  BY DEF Init
<1>7. changes \in 0..MaxChanges /\ troubles \in 0..MaxTroubles
  BY <1>6, ConstantsAssumption
<1> QED BY <1>3, <1>4, <1>5, <1>6, <1>7 DEF TypeOK

LEMMA WorldTypes ==
  ASSUME TypeOK, NEW b \in Businesses, Deactivate(b) \/ LeaveNumber(b) \/ JoinNumber(b) \/ ChangeShift(b)
  PROVE  TypeOK'
<1> USE ConstantsAssumption DEF TypeOK, Hand, Changes, Aside
<1>1. CASE Deactivate(b)  BY <1>1 DEF Deactivate
<1>2. CASE LeaveNumber(b) BY <1>2 DEF LeaveNumber
<1>3. CASE JoinNumber(b)  BY <1>3 DEF JoinNumber
<1>4. CASE ChangeShift(b)
  <2>1. staff' \in [Businesses -> Staff]
    BY <1>4 DEF ChangeShift
  <2> QED BY <1>4, <2>1 DEF ChangeShift
<1> QED BY <1>1, <1>2, <1>3, <1>4

LEMMA MessageTypes ==
  ASSUME TypeOK, NEW m \in Messages, Say(m) \/ Take(m)
  PROVE  TypeOK'
<1> USE ConstantsAssumption DEF TypeOK, Hand, worldVars, customerVars, handVars, boundVars
<1>1. CASE Say(m)
  <2>1. said' \in [Messages -> Text] /\ met' \in [Messages -> {"unsaid", "said", "open", "settled"}]
    BY <1>1 DEF Say
  <2> QED BY <1>1, <2>1 DEF Say
<1>2. CASE Take(m)
  BY <1>2 DEF Take, At, Goes
<1> QED BY <1>1, <1>2

LEMMA PassingTypes == ASSUME TypeOK, WindowPasses \/ GiveBack PROVE TypeOK'
<1> USE ConstantsAssumption DEF TypeOK, Hand, worldVars, customerVars, handVars, boundVars
<1>1. CASE WindowPasses
  <2>1. conv' \in Row /\ tx' \in Row /\ seen' \in Row
    BY <1>1, OlderIsARow DEF WindowPasses
  <2> QED BY <1>1, <2>1 DEF WindowPasses
<1>2. CASE GiveBack
  <2>1. conv' \in Row
    BY <1>2 DEF GiveBack, Row
  <2> QED BY <1>2, <2>1 DEF GiveBack
<1> QED BY <1>1, <1>2

(* A step of the handling fails once, or not at all.                       *)
LEMMA FailsOrNot == Handles \/ Undone => Fails \/ UNCHANGED troubles
BY DEF Handles, Undone, OrFails, AgentHasIt, PersonHasIt, ReleaseStale, Unshared, LookUp, StaysRouted,
       RoutedIsGone, Gone, PlaceByAnswer, PlaceByWords, PlaceByCampaign, Exhausted, WaitForChoice,
       AskWhichBusiness, Unplaceable, MenuLeaves, MenuFails, NoteMenu, CommitRoute, AgentReplies,
       TwinStandsDown, ReplyBlocked, NoReply, Fallback, FallbackFails, FlagHandoff, Commit

LEMMA TroublesAreBounded ==
  ASSUME TypeOK, Handles \/ Undone
  PROVE  troubles' \in 0..MaxTroubles /\ troubles <= troubles'
<1> USE ConstantsAssumption DEF TypeOK
<1>1. CASE Fails
  BY <1>1 DEF Fails
<1>2. CASE UNCHANGED troubles
  BY <1>2
<1> QED BY <1>1, <1>2, FailsOrNot

LEMMA HandoffRow == ASSUME NEW row \in Row, NEW h \in BOOLEAN PROVE [row EXCEPT !.handoff = h] \in Row
BY DEF Row

LEMMA RoutedRow ==
  ASSUME NEW row \in Row, NEW r \in Businesses \cup {NoOne}
  PROVE  [row EXCEPT !.routed = r] \in Row
BY DEF Row

LEMMA PlacedRow ==
  ASSUME NEW row \in Row, NEW r \in Businesses \cup {NoOne}
  PROVE  [row EXCEPT !.routed = r, !.prompt = "never", !.attempts = 0] \in Row
BY DEF Row

LEMMA NotedRow ==
  ASSUME NEW row \in Row, NEW p \in {"never", "fresh", "old"}
  PROVE  [row EXCEPT !.prompt = p, !.attempts = row.attempts + 1] \in Row
<1>1. row.attempts + 1 \in Nat
  BY DEF Row
<1>2. ASSUME NEW n \in Nat PROVE [row EXCEPT !.prompt = p, !.attempts = n] \in Row
  BY DEF Row
<1> QED BY <1>1, <1>2

LEMMA NumberedTypes ==
  ASSUME NEW L \in SUBSET Businesses, NEW whole \in SUBSET Businesses
  PROVE  Numbered(L, whole) \in SUBSET (Nat \X Businesses)
<1>1. ASSUME NEW b \in L PROVE Place(b, whole) \in Nat
  BY PlaceIsANumber
<1> QED BY <1>1 DEF Numbered

LEMMA HandlesTypes == ASSUME TypeOK, Handles PROVE TypeOK'
<1> USE DEF TypeOK, Hand, worldVars, customerVars, At, Goes, Same, NoPlacing, NoWords
<1>0. troubles' \in 0..MaxTroubles /\ Owner \in Businesses
  BY TroublesAreBounded, ConstantsAssumption
<1>1. CASE AgentHasIt
  BY <1>0, <1>1 DEF AgentHasIt
<1>2. CASE PersonHasIt
  BY <1>0, <1>2 DEF PersonHasIt
<1>3. CASE ReleaseStale
  <2>1. [tx EXCEPT !.handoff = FALSE] \in Row /\ [tx EXCEPT !.handoff = tx.handoff /\ SomebodyCanHandle(Answering(tx))] \in Row
    BY HandoffRow DEF Row, SomebodyCanHandle
  <2>2. tx' \in Row /\ shaken' \in BOOLEAN
    BY <1>3, <2>1 DEF ReleaseStale
  <2>3. pc = "custody" /\ pc' = "look" /\ Same /\ NoPlacing /\ UNCHANGED <<serving, due, told>>
    BY <1>3 DEF ReleaseStale
  <2> QED BY <1>0, <2>2, <2>3
<1>4. CASE Unshared
  BY <1>0, <1>4 DEF Unshared, Serves
<1>5. CASE LookUp
  <2>1. seen' \in Row /\ why' \in {"fresh", "gone", "blind"}
    BY <1>5, NewRowIsARow DEF LookUp
  <2> QED BY <1>0, <1>5, <2>1 DEF LookUp
<1>6. CASE StaysRouted
  BY <1>0, <1>6 DEF StaysRouted, Serves
<1>7. CASE RoutedIsGone
  <2>1. seen' \in Row
    BY <1>7, RoutedRow DEF RoutedIsGone
  <2>2. why' \in {"fresh", "gone", "blind"}
    BY <1>7 DEF RoutedIsGone
  <2> QED BY <1>0, <1>7, <2>1, <2>2 DEF RoutedIsGone
<1>8. CASE PlaceByAnswer
  <2>1. Picked \subseteq Businesses
    BY DEF Picked, Answer
  <2> QED BY <1>0, <1>8, <2>1 DEF PlaceByAnswer, Routes
<1>9. CASE PlaceByWords
  <2>1. Decisive \subseteq Businesses
    BY DEF Decisive, Matching
  <2> QED BY <1>0, <1>9, <2>1 DEF PlaceByWords, Routes
<1>10. CASE PlaceByCampaign
  BY <1>0, <1>10 DEF PlaceByCampaign, Unplaced, Routes
<1>11. CASE Exhausted \/ WaitForChoice \/ AskWhichBusiness
  <2>1. /\ pc = "place" /\ pc' \in {"fallback", "commit", "ask"} /\ due' = FALSE
        /\ Same /\ NoPlacing /\ NoWords /\ UNCHANGED <<tx, serving>>
    BY <1>11 DEF Exhausted, WaitForChoice, AskWhichBusiness, Unplaceable, Unplaced
  <2>2. Hand'
    BY <2>1
  <2> QED BY <1>0, <2>1, <2>2
<1>12. CASE MenuLeaves
  <2>1. Offered \subseteq Businesses
    BY DEF Offered, Matching
  <2>2. menu' \in SUBSET (Nat \X Businesses)
    BY <1>12, <2>1, NumberedTypes DEF MenuLeaves
  <2>3. asked' \in Nat /\ repeats' \in Nat /\ relisted' \in BOOLEAN /\ screen' = "fresh"
    BY <1>12 DEF MenuLeaves
  <2> QED BY <1>0, <1>12, <2>2, <2>3 DEF MenuLeaves
<1>13. CASE MenuFails
  BY <1>0, <1>13 DEF MenuFails
<1>14. CASE NoteMenu
  <2>1. screen \in {"never", "fresh", "old"}
    BY <1>14 DEF NoteMenu
  <2>2. [tx EXCEPT !.prompt = screen, !.attempts = tx.attempts + 1] \in Row
    BY <2>1, NotedRow
  <2>3. tx' \in Row
    BY <1>14, <2>2 DEF NoteMenu
  <2> QED BY <1>0, <1>14, <2>3 DEF NoteMenu
<1>15. CASE CommitRoute
  <2>0. [tx EXCEPT !.routed = target, !.prompt = "never", !.attempts = 0] \in Row
    BY PlacedRow
  <2>1. tx' \in Row
    BY <1>15, <2>0 DEF CommitRoute
  <2>2. serving' \in Businesses /\ pc' = "serve"
    BY <1>0, <1>15 DEF CommitRoute, Serves
  <2> QED BY <1>0, <1>15, <2>1, <2>2 DEF CommitRoute
<1>16. CASE AgentReplies
  BY <1>0, <1>16 DEF AgentReplies
<1>17. CASE TwinStandsDown
  BY <1>0, <1>17 DEF TwinStandsDown
<1>18. CASE ReplyBlocked
  <2>1. PICK somebody \in {OnShift(serving), TRUE} :
          /\ Says(somebody)
          /\ \/ /\ tx' = [tx EXCEPT !.handoff = @ \/ somebody] /\ Goes("commit")
                /\ OrFails(somebody = OnShift(serving)) /\ UNCHANGED shaken
             \/ /\ somebody = OnShift(serving)
                /\ Fails /\ shaken' = TRUE /\ Goes("flag") /\ UNCHANGED tx
    BY <1>18 DEF ReplyBlocked
  <2>2. [tx EXCEPT !.handoff = tx.handoff \/ somebody] \in Row
    BY HandoffRow DEF Row, OnShift
  <2>3. tx' \in Row /\ pc' \in {"commit", "flag"} /\ shaken' \in BOOLEAN
    BY <2>1, <2>2
  <2>4. told' \in {"none", "person", "nobody"}
    BY <2>1 DEF Says
  <2> QED BY <1>0, <1>18, <2>3, <2>4 DEF ReplyBlocked
<1>19. CASE NoReply
  BY <1>0, <1>19 DEF NoReply
<1>20. CASE Fallback
  <2>1. told' \in {"none", "person", "nobody"} /\ shaken' \in BOOLEAN
    BY <1>20 DEF Fallback, Says
  <2> QED BY <1>0, <1>20, <2>1 DEF Fallback
<1>21. CASE FallbackFails
  <2>1. told' \in {"none", "person", "nobody"} /\ shaken' \in BOOLEAN
    BY <1>21 DEF FallbackFails, Says
  <2> QED BY <1>0, <1>21, <2>1 DEF FallbackFails
<1>22. CASE FlagHandoff
  <2>1. [tx EXCEPT !.handoff = TRUE] \in Row /\ [tx EXCEPT !.handoff = tx.handoff \/ OnShift(Answering(tx))] \in Row
    BY HandoffRow DEF Row, OnShift
  <2>2. tx' \in Row /\ shaken' \in BOOLEAN
    BY <1>22, <2>1 DEF FlagHandoff
  <2> QED BY <1>0, <1>22, <2>2 DEF FlagHandoff
<1>23. CASE Commit
  <2>1. PICK counted \in {due, FALSE} :
          /\ met' = Settled(counted) /\ OrFails(counted = due)
          /\ said' = [m \in Messages |-> IF met'[m] = "settled" THEN Blank ELSE said[m]]
    BY <1>23 DEF Commit
  <2>2. met' \in [Messages -> {"unsaid", "said", "open", "settled"}]
    BY <2>1 DEF Settled
  <2>3. said' \in [Messages -> Text]
    BY <2>1, BlankIsAText
  <2>4. asked' \in Nat /\ repeats' \in Nat /\ screen' \in {"none", "fresh", "old"} /\ menu' \in SUBSET (Nat \X Businesses)
    BY <1>23 DEF Commit
  <2>5. conv' \in Row /\ UNCHANGED <<worldVars, relisted, changes>> /\ LetsGo
    BY <1>23 DEF Commit
  <2> QED BY <1>0, <2>2, <2>3, <2>4, <2>5, NewRowIsARow DEF LetsGo
<1> QED BY <1>1, <1>2, <1>3, <1>4, <1>5, <1>6, <1>7, <1>8, <1>9, <1>10, <1>11, <1>12, <1>13, <1>14, <1>15, <1>16, <1>17, <1>18, <1>19, <1>20, <1>21, <1>22, <1>23 DEF Handles

LEMMA UndoneTypes == ASSUME TypeOK, Undone PROVE TypeOK'
<1>1. troubles' \in 0..MaxTroubles
  BY TroublesAreBounded
<1> QED BY <1>1, ConstantsAssumption, NewRowIsARow DEF TypeOK, Hand, Undone, LetsGo, Goes, worldVars, customerVars

LEMMA StepTypes == TypeOK /\ [Next]_vars => TypeOK'
<1> SUFFICES ASSUME TypeOK, [Next]_vars PROVE TypeOK'
  OBVIOUS
<1>1. CASE UNCHANGED vars
  BY <1>1 DEF vars, worldVars, customerVars, handVars, boundVars, TypeOK, Hand
<1>2. ASSUME NEW b \in Businesses, Deactivate(b) \/ LeaveNumber(b) \/ JoinNumber(b) \/ ChangeShift(b) PROVE TypeOK'
  BY <1>2, WorldTypes
<1>3. ASSUME NEW m \in Messages, Say(m) \/ Take(m) PROVE TypeOK'
  BY <1>3, MessageTypes
<1>4. CASE WindowPasses \/ GiveBack
  BY <1>4, PassingTypes
<1>5. CASE Handles
  BY <1>5, HandlesTypes
<1>6. CASE Undone
  BY <1>6, UndoneTypes
<1> QED BY <1>1, <1>2, <1>3, <1>4, <1>5, <1>6 DEF Next

(* Every variable keeps its type, for any number of businesses, messages,   *)
(* menus, changes and failures.                                            *)
THEOREM TypeCorrect == Spec => []TypeOK
<1>1. Init => TypeOK
  BY InitTypes
<1>2. TypeOK /\ [Next]_vars => TypeOK'
  BY StepTypes
<1> QED BY <1>1, <1>2, PTL DEF Spec

-----------------------------------------------------------------------------
(* Custody.                                                                *)

LEMMA InitCustody == Init => Custody /\ Placing
BY DEF Init, Custody, Placing, Early, Late

LEMMA AroundCustody ==
  ASSUME TypeOK, Custody, UNCHANGED vars \/ WindowPasses \/ GiveBack \/ Undone
                          \/ \E b \in Businesses : Deactivate(b) \/ LeaveNumber(b) \/ JoinNumber(b) \/ ChangeShift(b)
  PROVE  Custody'
<1> USE DEF TypeOK, Hand, Custody, Early, Answering, worldVars, customerVars, handVars, boundVars
<1>1. CASE UNCHANGED vars
  BY <1>1 DEF vars
<1>2. CASE WindowPasses
  BY <1>2 DEF WindowPasses, Older, Row
<1>3. CASE GiveBack
  BY <1>3 DEF GiveBack
<1>4. CASE Undone
  BY <1>4 DEF Undone, LetsGo, Goes
<1>5. ASSUME NEW b \in Businesses, Deactivate(b) PROVE Custody'
  BY <1>5 DEF Deactivate, Aside
<1>6. ASSUME NEW b \in Businesses, LeaveNumber(b) PROVE Custody'
  BY <1>6 DEF LeaveNumber, Aside
<1>7. ASSUME NEW b \in Businesses, JoinNumber(b) PROVE Custody'
  BY <1>7 DEF JoinNumber, Aside
<1>8. ASSUME NEW b \in Businesses, ChangeShift(b) PROVE Custody'
  BY <1>8 DEF ChangeShift, Aside
<1> QED BY <1>1, <1>2, <1>3, <1>4, <1>5, <1>6, <1>7, <1>8

LEMMA MessageCustody == ASSUME TypeOK, Custody, NEW m \in Messages, Say(m) \/ Take(m) PROVE Custody'
<1> USE DEF TypeOK, Hand, Custody, Early, Answering, worldVars, customerVars, handVars, boundVars
<1>1. CASE Say(m)
  <2>1. pc # "idle" => met'[cur] \in {"said", "open"}
    BY <1>1 DEF Say
  <2> QED BY <1>1, <2>1 DEF Say
<1>2. CASE Take(m)
  BY <1>2 DEF Take, At, Goes
<1> QED BY <1>1, <1>2

LEMMA HandlesCustody == ASSUME TypeOK, Custody, Handles PROVE Custody'
<1> USE ConstantsAssumption DEF TypeOK, Hand, Custody, Early, Answering, worldVars, customerVars, At, Goes, Same, NoPlacing, NoWords
<1>1. CASE AgentHasIt \/ PersonHasIt
  BY <1>1 DEF AgentHasIt, PersonHasIt
<1>2. CASE ReleaseStale
  <2>1. tx'.routed = tx.routed /\ tx'.prompt = tx.prompt /\ tx'.attempts = tx.attempts
    BY <1>2 DEF ReleaseStale, Row
  <2>2. tx.handoff /\ ~tx'.handoff => shaken' \/ staff[Answering(tx)] = "none"
    BY <1>2 DEF ReleaseStale, SomebodyCanHandle, Row
  <2> QED BY <1>2, <2>1, <2>2 DEF ReleaseStale
<1>3. CASE Unshared \/ LookUp \/ StaysRouted \/ RoutedIsGone
  BY <1>3 DEF Unshared, LookUp, StaysRouted, RoutedIsGone, Serves
<1>4. CASE PlaceByAnswer \/ PlaceByWords \/ PlaceByCampaign
  BY <1>4 DEF PlaceByAnswer, PlaceByWords, PlaceByCampaign, Unplaced, Routes
<1>5. CASE Exhausted \/ WaitForChoice \/ AskWhichBusiness
  BY <1>5 DEF Exhausted, WaitForChoice, AskWhichBusiness, Unplaceable, Unplaced
<1>6. CASE MenuLeaves \/ MenuFails
  BY <1>6 DEF MenuLeaves, MenuFails
<1>7. CASE NoteMenu
  BY <1>7 DEF NoteMenu, Row
<1>8. CASE CommitRoute
  BY <1>8 DEF CommitRoute, Serves, Row
<1>9. CASE AgentReplies \/ TwinStandsDown \/ NoReply \/ Fallback \/ FallbackFails
  BY <1>9 DEF AgentReplies, TwinStandsDown, NoReply, Fallback, FallbackFails
<1>10. CASE ReplyBlocked
  BY <1>10 DEF ReplyBlocked, Row
<1>11. CASE FlagHandoff
  BY <1>11 DEF FlagHandoff, Row
<1>12. CASE Commit
  BY <1>12 DEF Commit, LetsGo
<1> QED BY <1>1, <1>2, <1>3, <1>4, <1>5, <1>6, <1>7, <1>8, <1>9, <1>10, <1>11, <1>12 DEF Handles

-----------------------------------------------------------------------------
(* Placing.                                                                *)

LEMMA AroundPlacing ==
  ASSUME TypeOK, Custody, Placing, UNCHANGED vars \/ WindowPasses \/ GiveBack \/ Undone
                          \/ (\E m \in Messages : Say(m) \/ Take(m))
                          \/ \E b \in Businesses : Deactivate(b) \/ LeaveNumber(b) \/ JoinNumber(b) \/ ChangeShift(b)
  PROVE  Placing'
<1> USE DEF TypeOK, Hand, Custody, Placing, Early, Late, worldVars, customerVars, handVars, boundVars
<1>1. CASE UNCHANGED vars
  BY <1>1 DEF vars
<1>2. CASE WindowPasses
  BY <1>2 DEF WindowPasses, Older, Row
<1>3. CASE GiveBack
  BY <1>3 DEF GiveBack, Row
<1>4. CASE Undone
  BY <1>4 DEF Undone, LetsGo, Goes, At, Fails
<1>5. ASSUME NEW m \in Messages, Say(m) PROVE Placing'
  BY <1>5 DEF Say
<1>6. ASSUME NEW m \in Messages, Take(m) PROVE Placing'
  BY <1>6 DEF Take, At, Goes
<1>7. ASSUME NEW b \in Businesses, Deactivate(b) \/ LeaveNumber(b) \/ JoinNumber(b) \/ ChangeShift(b) PROVE Placing'
  BY <1>7 DEF Deactivate, LeaveNumber, JoinNumber, ChangeShift, Changes, Aside
<1> QED BY <1>1, <1>2, <1>3, <1>4, <1>5, <1>6, <1>7

LEMMA HandlesPlacing == ASSUME TypeOK, Custody, Placing, Handles PROVE Placing'
<1> USE ConstantsAssumption DEF TypeOK, Hand, Custody, Placing, Early, Late, worldVars, customerVars, At, Goes, Same, NoPlacing, NoWords
<1>1. CASE AgentHasIt \/ PersonHasIt
  BY <1>1 DEF AgentHasIt, PersonHasIt
<1>2. CASE ReleaseStale
  BY <1>2 DEF ReleaseStale
<1>3. CASE Unshared \/ StaysRouted
  BY <1>3 DEF Unshared, StaysRouted, Serves
<1>4. CASE LookUp
  BY <1>4 DEF LookUp, NewRow
<1>5. CASE RoutedIsGone
  <2>1. seen'.routed = NoOne /\ seen'.prompt = seen.prompt /\ seen'.attempts = seen.attempts
    BY <1>5 DEF RoutedIsGone, Row
  <2> QED BY <1>5, <2>1 DEF RoutedIsGone, Gone
<1>6. CASE PlaceByAnswer \/ PlaceByWords \/ PlaceByCampaign
  BY <1>6 DEF PlaceByAnswer, PlaceByWords, PlaceByCampaign, Unplaced, Routes
<1>7. CASE Exhausted \/ WaitForChoice \/ AskWhichBusiness
  BY <1>7 DEF Exhausted, WaitForChoice, AskWhichBusiness, Unplaceable, Unplaced
<1>8. CASE MenuLeaves \/ MenuFails
  BY <1>8 DEF MenuLeaves, MenuFails
<1>9. CASE NoteMenu
  BY <1>9 DEF NoteMenu, Row
<1>10. CASE CommitRoute
  BY <1>10 DEF CommitRoute, Serves, Row
<1>11. CASE AgentReplies \/ TwinStandsDown \/ NoReply \/ Fallback \/ FallbackFails
  BY <1>11 DEF AgentReplies, TwinStandsDown, NoReply, Fallback, FallbackFails
<1>12. CASE ReplyBlocked
  BY <1>12 DEF ReplyBlocked, Row
<1>13. CASE FlagHandoff
  BY <1>13 DEF FlagHandoff, Row
<1>14. CASE Commit
  BY <1>14 DEF Commit, LetsGo
<1> QED BY <1>1, <1>2, <1>3, <1>4, <1>5, <1>6, <1>7, <1>8, <1>9, <1>10, <1>11, <1>12, <1>13, <1>14 DEF Handles

-----------------------------------------------------------------------------
(* Menus, and how often a customer is asked.                               *)

LEMMA InitMenus == Init => Menus
BY DEF Init, Menus, Noted, NewRow, Late

LEMMA AroundMenus ==
  ASSUME TypeOK, Custody, Menus, UNCHANGED vars \/ WindowPasses \/ GiveBack \/ Undone
                          \/ (\E m \in Messages : Say(m) \/ Take(m))
                          \/ \E b \in Businesses : Deactivate(b) \/ LeaveNumber(b) \/ JoinNumber(b) \/ ChangeShift(b)
  PROVE  Menus'
<1> USE ConstantsAssumption DEF TypeOK, Hand, Custody, Menus, Noted, RoutedAnew, Early, Late, worldVars, customerVars, handVars, boundVars
<1>1. CASE UNCHANGED vars
  BY <1>1 DEF vars
<1>2. CASE WindowPasses
  BY <1>2 DEF WindowPasses, Older, Row
<1>3. CASE GiveBack
  BY <1>3 DEF GiveBack, Row
<1>4. CASE Undone
  BY <1>4 DEF Undone, LetsGo, Goes, At, Fails, Row
<1>5. ASSUME NEW m \in Messages, Say(m) PROVE Menus'
  BY <1>5 DEF Say
<1>6. ASSUME NEW m \in Messages, Take(m) PROVE Menus'
  BY <1>6 DEF Take, At, Goes
<1>7. ASSUME NEW b \in Businesses, Deactivate(b) \/ LeaveNumber(b) \/ JoinNumber(b) \/ ChangeShift(b) PROVE Menus'
  BY <1>7 DEF Deactivate, LeaveNumber, JoinNumber, ChangeShift, Changes, Aside
<1> QED BY <1>1, <1>2, <1>3, <1>4, <1>5, <1>6, <1>7

LEMMA HandlesMenus == ASSUME TypeOK, Custody, Menus, Handles PROVE Menus'
<1> USE ConstantsAssumption DEF TypeOK, Hand, Custody, Menus, Noted, RoutedAnew, Early, Late, worldVars, customerVars, At, Goes, Same, NoPlacing, NoWords
<1>a. conv.attempts \in Nat /\ tx.attempts \in Nat
  BY DEF Row
<1>b. pc \in Early => tx.routed = conv.routed /\ ~(tx.attempts < conv.attempts)
  BY <1>a
<1>c. pc \in Early /\ tx.prompt # "never" => tx.attempts > 0 /\ screen # "none"
  BY <1>a
<1>0. conv.attempts \in Nat /\ tx.attempts \in Nat /\ (pc \in Early => ~RoutedAnew /\ Noted(tx))
  BY <1>a, <1>b, <1>c
<1>1. CASE AgentHasIt \/ PersonHasIt
  BY <1>0, <1>1 DEF AgentHasIt, PersonHasIt
<1>2. CASE ReleaseStale
  <2>1. tx'.routed = tx.routed /\ tx'.prompt = tx.prompt /\ tx'.attempts = tx.attempts
    BY <1>2 DEF ReleaseStale, Row
  <2> QED BY <1>0, <1>2, <2>1 DEF ReleaseStale
<1>3. CASE Unshared \/ StaysRouted
  BY <1>0, <1>3 DEF Unshared, StaysRouted, Serves
<1>4. CASE LookUp
  BY <1>0, <1>4 DEF LookUp, NewRow
<1>5. CASE RoutedIsGone
  <2>1. seen'.prompt = seen.prompt /\ seen'.attempts = seen.attempts
    BY <1>5 DEF RoutedIsGone, Row
  <2> QED BY <1>0, <1>5, <2>1 DEF RoutedIsGone, Gone
<1>6. CASE PlaceByAnswer \/ PlaceByWords \/ PlaceByCampaign
  BY <1>0, <1>6 DEF PlaceByAnswer, PlaceByWords, PlaceByCampaign, Unplaced, Routes
<1>7. CASE Exhausted \/ WaitForChoice \/ AskWhichBusiness
  BY <1>0, <1>7 DEF Exhausted, WaitForChoice, AskWhichBusiness, Unplaceable, Unplaced, OnScreen
<1>8. CASE MenuLeaves
  BY <1>0, <1>8 DEF MenuLeaves
<1>15. CASE MenuFails
  BY <1>0, <1>15 DEF MenuFails
<1>9. CASE NoteMenu
  <2>1. CASE UNCHANGED tx
    BY <1>0, <1>9, <2>1 DEF NoteMenu
  <2>2. CASE tx' = [tx EXCEPT !.prompt = screen, !.attempts = @ + 1]
    <3>1. tx'.routed = tx.routed /\ tx'.prompt = screen /\ tx'.attempts = tx.attempts + 1
      BY <2>2 DEF Row
    <3> QED BY <1>0, <1>9, <3>1 DEF NoteMenu
  <2> QED BY <1>9, <2>1, <2>2 DEF NoteMenu
<1>10. CASE CommitRoute
  <2>1. CASE UNCHANGED tx
    BY <1>0, <1>10, <2>1 DEF CommitRoute, Serves
  <2>2. CASE tx' = [tx EXCEPT !.routed = target, !.prompt = "never", !.attempts = 0]
    <3>1. tx'.routed = target /\ tx'.prompt = "never" /\ tx'.attempts = 0
      BY <2>2 DEF Row
    <3> QED BY <1>0, <1>10, <3>1 DEF CommitRoute, Serves
  <2> QED BY <1>10, <2>1, <2>2 DEF CommitRoute
<1>11. CASE AgentReplies \/ TwinStandsDown \/ NoReply \/ Fallback \/ FallbackFails
  BY <1>0, <1>11 DEF AgentReplies, TwinStandsDown, NoReply, Fallback, FallbackFails
<1>12. CASE ReplyBlocked
  BY <1>0, <1>12 DEF ReplyBlocked, Row
<1>13. CASE FlagHandoff
  BY <1>0, <1>13 DEF FlagHandoff, Row
<1>14. CASE Commit
  BY <1>0, <1>14 DEF Commit, LetsGo
<1> QED BY <1>1, <1>2, <1>3, <1>4, <1>5, <1>6, <1>7, <1>8, <1>9, <1>10, <1>11, <1>12, <1>13, <1>14, <1>15 DEF Handles

LEMMA MoreTroubles ==
  ASSUME NEW x \in Nat, NEW most \in Nat, NEW t \in Nat, NEW u \in Nat, x <= most + t, t <= u
  PROVE  x <= most + u
OBVIOUS

(* The handling pays for what it did not count.                            *)
LEMMA AroundPatience ==
  ASSUME TypeOK, Custody, Placing, Menus, Patience, UNCHANGED vars \/ WindowPasses \/ GiveBack \/ Undone
                          \/ (\E m \in Messages : Say(m) \/ Take(m))
                          \/ \E b \in Businesses : Deactivate(b) \/ LeaveNumber(b) \/ JoinNumber(b) \/ ChangeShift(b)
  PROVE  Patience'
<1> USE ConstantsAssumption DEF TypeOK, Hand, Menus, Placing, Patience, AskedPatiently, Known, Noted, RoutedAnew, Early, Late, worldVars, customerVars, handVars, boundVars
<1>1. CASE UNCHANGED vars
  BY <1>1 DEF vars
<1>2. CASE WindowPasses
  BY <1>2 DEF WindowPasses, Older, Row
<1>3. CASE GiveBack
  BY <1>3 DEF GiveBack, Row
<1>4. CASE Undone
  BY <1>4 DEF Undone, LetsGo, Goes, At, Fails, Row
<1>5. ASSUME NEW m \in Messages, Say(m) PROVE Patience'
  BY <1>5 DEF Say
<1>6. ASSUME NEW m \in Messages, Take(m) PROVE Patience'
  BY <1>6 DEF Take, At, Goes
<1>7. ASSUME NEW b \in Businesses, Deactivate(b) \/ LeaveNumber(b) \/ JoinNumber(b) \/ ChangeShift(b) PROVE Patience'
  BY <1>7 DEF Deactivate, LeaveNumber, JoinNumber, ChangeShift, Changes, Aside
<1> QED BY <1>1, <1>2, <1>3, <1>4, <1>5, <1>6, <1>7

LEMMA HandlesPatience == ASSUME TypeOK, Custody, Placing, Menus, Patience, Handles PROVE Patience'
<1> USE ConstantsAssumption DEF TypeOK, Hand, Custody, Placing, Menus, Patience, AskedPatiently, Known, Noted, RoutedAnew, Early, Late, worldVars, customerVars, At, Goes, Fails, OrFails, Same, NoPlacing, NoWords
<1>a. conv.attempts \in Nat /\ tx.attempts \in Nat
  BY DEF Row
<1>b. pc \in Early => tx.routed = conv.routed /\ ~(tx.attempts < conv.attempts)
  BY <1>a
<1>c. pc \in Early /\ tx.prompt # "never" => tx.attempts > 0 /\ screen # "none"
  BY <1>a
<1>d. troubles' \in Nat /\ troubles \in Nat /\ troubles <= troubles' /\ asked \in Nat /\ repeats \in Nat /\ seen.attempts \in Nat
  BY TroublesAreBounded DEF Row
<1>0. conv.attempts \in Nat /\ tx.attempts \in Nat /\ (pc \in Early => ~RoutedAnew /\ tx.attempts = conv.attempts)
  BY <1>a, <1>b
<1>1. CASE AgentHasIt \/ PersonHasIt
  BY <1>0, <1>d, <1>1 DEF AgentHasIt, PersonHasIt
<1>2. CASE ReleaseStale
  <2>1. tx'.routed = tx.routed /\ tx'.prompt = tx.prompt /\ tx'.attempts = tx.attempts
    BY <1>2 DEF ReleaseStale, Row
  <2> QED BY <1>0, <1>d, <1>2, <2>1 DEF ReleaseStale
<1>3. CASE Unshared \/ StaysRouted
  BY <1>0, <1>d, <1>3 DEF Unshared, StaysRouted, Serves
<1>4. CASE LookUp
  BY <1>0, <1>d, <1>4 DEF LookUp, NewRow
<1>5. CASE RoutedIsGone
  <2>1. seen'.prompt = seen.prompt /\ seen'.attempts = seen.attempts
    BY <1>5 DEF RoutedIsGone, Row
  <2> QED BY <1>0, <1>d, <1>5, <2>1 DEF RoutedIsGone, Gone
<1>6. CASE PlaceByAnswer \/ PlaceByWords \/ PlaceByCampaign
  BY <1>0, <1>d, <1>6 DEF PlaceByAnswer, PlaceByWords, PlaceByCampaign, Unplaced, Routes
<1>7. CASE Exhausted \/ WaitForChoice \/ AskWhichBusiness
  BY <1>0, <1>d, <1>7 DEF Exhausted, WaitForChoice, AskWhichBusiness, Unplaceable, Unplaced, OnScreen
<1>8. CASE MenuLeaves
  BY <1>0, <1>d, <1>8 DEF MenuLeaves
<1>15. CASE MenuFails
  BY <1>0, <1>d, <1>15 DEF MenuFails
<1>9. CASE NoteMenu
  <2>1. CASE Fails /\ UNCHANGED tx
    BY <1>0, <1>d, <1>9, <2>1 DEF NoteMenu
  <2>2. CASE tx' = [tx EXCEPT !.prompt = screen, !.attempts = @ + 1]
    <3>1. tx'.routed = tx.routed /\ tx'.prompt = screen /\ tx'.attempts = tx.attempts + 1
      BY <2>2 DEF Row
    <3> QED BY <1>0, <1>d, <1>9, <3>1 DEF NoteMenu
  <2> QED BY <1>9, <2>1, <2>2 DEF NoteMenu
<1>10. CASE CommitRoute
  <2>1. CASE UNCHANGED tx
    BY <1>0, <1>d, <1>10, <2>1 DEF CommitRoute, Serves
  <2>2. CASE tx' = [tx EXCEPT !.routed = target, !.prompt = "never", !.attempts = 0]
    <3>1. tx'.routed = target /\ tx'.prompt = "never" /\ tx'.attempts = 0
      BY <2>2 DEF Row
    <3> QED BY <1>0, <1>d, <1>10, <3>1 DEF CommitRoute, Serves
  <2> QED BY <1>10, <2>1, <2>2 DEF CommitRoute
<1>11. CASE AgentReplies \/ TwinStandsDown \/ NoReply \/ Fallback \/ FallbackFails
  <2>1. pc \in Late /\ pc' \in Late /\ pc \notin {"commit"} /\ UNCHANGED <<conv, tx, screen, asked, repeats>>
    BY <1>11 DEF AgentReplies, TwinStandsDown, NoReply, Fallback, FallbackFails
  <2>2. AskedPatiently'
    <3>1. MaxAttempts \in Nat /\ asked <= MaxAttempts + troubles /\ repeats <= troubles
      OBVIOUS
    <3>2. asked' = asked /\ repeats' = repeats
      BY <2>1
    <3>3. asked \in Nat /\ repeats \in Nat /\ troubles \in Nat /\ troubles' \in Nat /\ troubles <= troubles'
      BY <1>d
    <3>4. asked' <= MaxAttempts + troubles'
      BY <3>1, <3>2, <3>3, MoreTroubles
    <3>5. repeats' <= troubles'
      BY <3>1, <3>2, <3>3
    <3> QED BY <3>1, <3>4, <3>5
  <2>6. asked' <= conv'.attempts + troubles'
    BY <1>0, <1>d, <2>1
  <2>3. RoutedAnew' \/ asked' <= tx'.attempts + troubles'
    BY <1>0, <1>d, <2>1
  <2>4. RoutedAnew' \/ (screen' = "fresh" /\ tx'.prompt # "fresh" => repeats' < troubles')
    BY <1>0, <1>d, <2>1
  <2>7. asked' <= conv'.attempts + troubles' + 1
    BY <1>0, <1>d, <2>1, <2>6
  <2>8. pc' # "idle" /\ pc' \notin Early
    BY <2>1
  <2>9. RoutedAnew' \/ (asked' <= tx'.attempts + troubles' /\ Known(tx)')
    BY <2>3, <2>4
  <2> HIDE DEF RoutedAnew, Known, AskedPatiently
  <2> QED BY <2>2, <2>6, <2>7, <2>8, <2>9 DEF Patience
<1>12. CASE ReplyBlocked
  BY <1>0, <1>d, <1>12 DEF ReplyBlocked, Row
<1>13. CASE FlagHandoff
  BY <1>0, <1>d, <1>13 DEF FlagHandoff, Row
<1>14. CASE Commit
  BY <1>0, <1>d, <1>14 DEF Commit, LetsGo
<1> QED BY <1>1, <1>2, <1>3, <1>4, <1>5, <1>6, <1>7, <1>8, <1>9, <1>10, <1>11, <1>12, <1>13, <1>14, <1>15 DEF Handles

-----------------------------------------------------------------------------
(* The menu on the screen.                                                 *)

(* No two businesses on a list have the same number.                       *)
LEMMA PlacesDiffer ==
  ASSUME NEW L \in SUBSET Businesses, NEW b \in L, NEW c \in L, Place(b, L) = Place(c, L)
  PROVE  b = c
<1> DEFINE UpTo(x) == {y \in L : Order[y] <= Order[x]}
<1>1. ASSUME NEW x \in L, NEW y \in L, Order[x] <= Order[y], Place(x, L) = Place(y, L) PROVE x = y
  <2>1. UpTo(x) \subseteq UpTo(y)
    BY <1>1, ConstantsAssumption
  <2>2. IsFiniteSet(UpTo(y))
    BY ConstantsAssumption, FS_Subset
  <2>3. Cardinality(UpTo(x)) = Cardinality(UpTo(y))
    BY <1>1 DEF Place
  <2>4. UpTo(x) = UpTo(y)
    BY <2>1, <2>2, <2>3, FS_Subset
  <2>5. Order[y] <= Order[y] /\ Order[x] \in Nat /\ Order[y] \in Nat
    BY ConstantsAssumption
  <2>6. Order[y] <= Order[x]
    BY <2>4, <2>5
  <2> QED BY <1>1, <2>5, <2>6, ConstantsAssumption
<1>2. Order[b] <= Order[c] \/ Order[c] <= Order[b]
  BY ConstantsAssumption
<1> QED BY <1>1, <1>2

LEMMA PlaceIsOnTheList ==
  ASSUME NEW L \in SUBSET Businesses, NEW b \in L
  PROVE  Place(b, L) \in 1..Cardinality(L)
<1> DEFINE UpTo == {y \in L : Order[y] <= Order[b]}
<1>1. IsFiniteSet(L)
  BY ConstantsAssumption, FS_Subset
<1>2. IsFiniteSet(UpTo) /\ Cardinality(UpTo) <= Cardinality(L)
  BY <1>1, FS_Subset
<1>3. b \in UpTo
  BY ConstantsAssumption
<1>4. Cardinality(UpTo) # 0
  BY <1>2, <1>3, FS_EmptySet
<1>5. Cardinality(UpTo) \in Nat /\ Cardinality(L) \in Nat
  BY <1>1, <1>2, FS_CardinalityType
<1> QED BY <1>2, <1>4, <1>5 DEF Place

LEMMA InitShown == Init => Shown
BY DEF Init, Shown, ReadsTheMenuShown

LEMMA AroundShown ==
  ASSUME TypeOK, Custody, Shown, UNCHANGED vars \/ WindowPasses \/ GiveBack \/ Undone
                          \/ (\E m \in Messages : Say(m) \/ Take(m))
                          \/ \E b \in Businesses : Deactivate(b) \/ LeaveNumber(b) \/ JoinNumber(b) \/ ChangeShift(b)
  PROVE  Shown'
<1> USE DEF TypeOK, Hand, Custody, Shown, ReadsTheMenuShown, worldVars, customerVars, handVars, boundVars
<1>1. CASE UNCHANGED vars
  BY <1>1 DEF vars
<1>2. CASE WindowPasses
  BY <1>2 DEF WindowPasses
<1>3. CASE GiveBack
  BY <1>3 DEF GiveBack
<1>4. CASE Undone
  BY <1>4 DEF Undone, LetsGo, Goes
<1>5. ASSUME NEW m \in Messages, Say(m) PROVE Shown'
  <2>1. pc # "idle" => said'[cur] = said[cur]
    BY <1>5 DEF Say
  <2> QED BY <1>5, <2>1 DEF Say
<1>6. ASSUME NEW m \in Messages, Take(m) PROVE Shown'
  BY <1>6 DEF Take, At, Goes
<1>7. ASSUME NEW b \in Businesses, Deactivate(b) \/ LeaveNumber(b) \/ JoinNumber(b) PROVE Shown'
  BY <1>7 DEF Deactivate, LeaveNumber, JoinNumber, Aside
<1>8. ASSUME NEW b \in Businesses, ChangeShift(b) PROVE Shown'
  BY <1>8 DEF ChangeShift, Aside
<1> QED BY <1>1, <1>2, <1>3, <1>4, <1>5, <1>6, <1>7, <1>8

LEMMA AnswersTheMenu ==
  ASSUME TypeOK, Custody, Placing, Menus, Shown, PlaceByAnswer
  PROVE  ReadsTheMenuShown'
<1>1. PICK b \in Picked : target' = b
  BY DEF PlaceByAnswer, Routes
<1>2. pc = "place" /\ seen.prompt # "never" /\ b \in Answer(said[cur], list)
  BY <1>1 DEF PlaceByAnswer, At, Picked
<1>3. screen # "none"
  BY <1>2 DEF Placing, Menus, Noted
<1>4. ASSUME ~relisted, NEW c \in Businesses, <<said[cur].number, c>> \in menu PROVE c = b
  <2>1. list = listed /\ list \in SUBSET Businesses
    BY <1>2, <1>4 DEF Shown, TypeOK
  <2>2. c \in list /\ said[cur].number = Place(c, list)
    BY <1>4, <2>1 DEF Shown
  <2>3. said[cur].number \in 1..Cardinality(list)
    BY <2>1, <2>2, PlaceIsOnTheList
  <2>4. b \in list /\ Place(b, list) = said[cur].number
    BY <1>2, <2>3 DEF Answer
  <2> QED BY <2>1, <2>2, <2>4, PlacesDiffer
<1>5. UNCHANGED <<said, cur, menu, screen, relisted>>
  BY DEF PlaceByAnswer, Same, customerVars
<1> QED BY <1>1, <1>3, <1>4, <1>5 DEF ReadsTheMenuShown

LEMMA HandlesShown == ASSUME TypeOK, Custody, Placing, Menus, Shown, Handles PROVE Shown'
<1> USE DEF TypeOK, Hand, Shown, worldVars, customerVars, At, Goes, Same, NoPlacing, NoWords
<1>1. CASE AgentHasIt \/ PersonHasIt \/ ReleaseStale
  BY <1>1 DEF AgentHasIt, PersonHasIt, ReleaseStale, ReadsTheMenuShown
<1>2. CASE Unshared \/ LookUp \/ StaysRouted \/ RoutedIsGone
  BY <1>2 DEF Unshared, LookUp, StaysRouted, RoutedIsGone, Serves, ReadsTheMenuShown
<1>3. CASE PlaceByAnswer
  BY <1>3, AnswersTheMenu DEF PlaceByAnswer, Routes
<1>4. CASE PlaceByWords \/ PlaceByCampaign
  BY <1>4 DEF PlaceByWords, PlaceByCampaign, Unplaced, Routes, ReadsTheMenuShown
<1>5. CASE Exhausted \/ WaitForChoice \/ AskWhichBusiness
  BY <1>5 DEF Exhausted, WaitForChoice, AskWhichBusiness, Unplaceable, Unplaced, ReadsTheMenuShown
<1>6. CASE MenuLeaves
  <2>1. Offered \subseteq list
    BY DEF Offered, Matching
  <2>2. ASSUME ~relisted', NEW o \in menu' PROVE o[2] \in listed' /\ o[1] = Place(o[2], listed')
    <3>1. PICK b \in Offered : o = <<Place(b, list), b>>
      BY <1>6, <2>2 DEF MenuLeaves, Numbered
    <3>2. list = listed /\ listed' = listed
      BY <1>6, <2>2 DEF MenuLeaves
    <3> QED BY <2>1, <3>1, <3>2
  <2>3. pc' = "note"
    BY <1>6 DEF MenuLeaves
  <2> QED BY <2>2, <2>3 DEF ReadsTheMenuShown
<1>7. CASE MenuFails \/ NoteMenu \/ CommitRoute
  BY <1>7 DEF MenuFails, NoteMenu, CommitRoute, Serves, ReadsTheMenuShown
<1>8. CASE AgentReplies \/ TwinStandsDown \/ ReplyBlocked \/ NoReply
  BY <1>8 DEF AgentReplies, TwinStandsDown, ReplyBlocked, NoReply, ReadsTheMenuShown
<1>9. CASE Fallback \/ FallbackFails \/ FlagHandoff
  BY <1>9 DEF Fallback, FallbackFails, FlagHandoff, ReadsTheMenuShown
<1>10. CASE Commit
  <2>1. pc' = "idle" /\ UNCHANGED <<listed, relisted>> /\ menu' \in {menu, {}}
    BY <1>10 DEF Commit, LetsGo
  <2> QED BY <2>1 DEF ReadsTheMenuShown
<1> QED BY <1>1, <1>2, <1>3, <1>4, <1>5, <1>6, <1>7, <1>8, <1>9, <1>10 DEF Handles

-----------------------------------------------------------------------------
(* What is promised.                                                       *)

(* The row changes hands, routed or given back, only as a message commits   *)
(* or between two.                                                         *)
LEMMA WritesOfTheRow ==
  ASSUME TypeOK, Next
  PROVE  \/ conv'.routed = conv.routed /\ (pc = "idle" \/ conv'.handoff = conv.handoff)
         \/ pc = "commit" /\ conv' = tx
<1> USE DEF TypeOK, At, Same
<1>1. CASE Commit
  BY <1>1 DEF Commit
<1>2. CASE WindowPasses
  BY <1>2 DEF WindowPasses, Older, Row
<1>3. CASE GiveBack
  BY <1>3 DEF GiveBack, Row
<1>4. CASE Handles /\ ~Commit
  <2>1. conv' = conv
    BY <1>4 DEF Handles, AgentHasIt, PersonHasIt, ReleaseStale, Unshared, LookUp, StaysRouted,
         RoutedIsGone, PlaceByAnswer, PlaceByWords, PlaceByCampaign, Exhausted, WaitForChoice,
         AskWhichBusiness, MenuLeaves, MenuFails, NoteMenu, CommitRoute, AgentReplies,
         TwinStandsDown, ReplyBlocked, NoReply, Fallback, FallbackFails, FlagHandoff
  <2> QED BY <2>1
<1>5. CASE Undone
  BY <1>5 DEF Undone
<1>6. ASSUME NEW m \in Messages, Say(m) \/ Take(m) PROVE conv' = conv
  BY <1>6 DEF Say, Take, customerVars
<1>7. ASSUME NEW b \in Businesses, Deactivate(b) \/ LeaveNumber(b) \/ JoinNumber(b) \/ ChangeShift(b) PROVE conv' = conv
  BY <1>7 DEF Deactivate, LeaveNumber, JoinNumber, ChangeShift
<1> QED BY <1>1, <1>2, <1>3, <1>4, <1>5, <1>6, <1>7 DEF Next

LEMMA InitInv == Init => Inv
<1> SUFFICES ASSUME Init PROVE Inv
  OBVIOUS
<1>1. Patience
  BY ConstantsAssumption DEF Init, Patience, AskedPatiently, Known, NewRow, Early, Late
<1> QED BY <1>1, InitTypes, InitCustody, InitMenus, InitShown DEF Inv

LEMMA StepInv == Inv /\ [Next]_vars => Inv'
<1> SUFFICES ASSUME Inv, [Next]_vars PROVE Inv'
  OBVIOUS
<1>1. TypeOK'
  BY StepTypes DEF Inv
<1>2. CASE Handles
  BY <1>1, <1>2, HandlesCustody, HandlesPlacing, HandlesMenus, HandlesPatience, HandlesShown DEF Inv
<1>3. CASE ~Handles
  <2>1. \/ UNCHANGED vars \/ WindowPasses \/ GiveBack \/ Undone
        \/ (\E m \in Messages : Say(m) \/ Take(m))
        \/ \E b \in Businesses : Deactivate(b) \/ LeaveNumber(b) \/ JoinNumber(b) \/ ChangeShift(b)
    BY <1>3 DEF Next
  <2>2. Custody'
    BY <2>1, AroundCustody, MessageCustody DEF Inv
  <2>3. Placing' /\ Menus' /\ Patience' /\ Shown'
    BY <2>1, AroundPlacing, AroundMenus, AroundPatience, AroundShown DEF Inv
  <2> QED BY <1>1, <2>2, <2>3 DEF Inv
<1> QED BY <1>2, <1>3

LEMMA Inductive == Spec => []Inv
<1> QED BY InitInv, StepInv, PTL DEF Spec

(* A number is read as the menu on the screen shows it (triage.ts's         *)
(* matchTriageReply against buildTriageMessage), whatever it was narrowed   *)
(* to.                                                                     *)
THEOREM NumbersMeanWhatTheyShow == Spec => []ReadsTheMenuShown
<1>1. Inv => ReadsTheMenuShown
  BY DEF Inv, Shown
<1> QED BY <1>1, Inductive, PTL

(* A customer is asked at most MAX_TRIAGE_ATTEMPTS times, and not while a   *)
(* menu is in front of them, but for one more per failure.                 *)
THEOREM PatientAsking == Spec => []AskedPatiently
<1>1. Inv => AskedPatiently
  BY DEF Inv, Patience
<1> QED BY <1>1, Inductive, PTL

(* Routing is sticky (resolveServingOrganization): a business loses a       *)
(* conversation only by leaving, or to a routing that could not be read.   *)
THEOREM StickyRouting == Spec => StaysWithItsBusiness
<1>1. Inv /\ [Next]_vars => [conv.routed # NoOne /\ conv'.routed # conv.routed => why \in {"gone", "blind"}]_vars
  <2> SUFFICES ASSUME Inv, Next, conv.routed # NoOne, conv'.routed # conv.routed PROVE why \in {"gone", "blind"}
    OBVIOUS
  <2>1. why \in {"fresh", "gone", "blind"}
    BY DEF Inv, TypeOK, Hand
  <2>2. pc = "commit" /\ conv' = tx
    BY WritesOfTheRow DEF Inv
  <2> QED BY <2>1, <2>2 DEF Inv, Placing, Late
<1> QED BY <1>1, Inductive, PTL DEF Spec, StaysWithItsBusiness

(* releaseStaleHandoff frees a conversation from a person only where the    *)
(* business that answers has nobody.                                       *)
THEOREM KeptHandoffs == Spec => HandoffsAreKept
<1>1. Inv /\ [Next]_vars =>
        [pc = "commit" /\ conv.handoff /\ ~conv'.handoff =>
           LET answers == IF conv.routed = NoOne THEN Owner ELSE conv.routed
           IN  shaken \/ staff[answers] = "none"]_vars
  <2> SUFFICES ASSUME Inv, Next, pc = "commit", conv.handoff, ~conv'.handoff
               PROVE  shaken \/ staff[Answering(conv)] = "none"
    BY DEF Answering
  <2>1. conv' = tx
    BY WritesOfTheRow DEF Inv
  <2> QED BY <2>1 DEF Inv, Custody
<1> QED BY <1>1, Inductive, PTL DEF Spec, HandoffsAreKept

=============================================================================
