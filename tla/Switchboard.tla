---------------------------- MODULE Switchboard ----------------------------
(***************************************************************************)
(* Which of the businesses on one WhatsApp number answers a customer.      *)
(*                                                                         *)
(* A conversation on a shared number belongs to the number's owner and is  *)
(* routed to the business that serves it: by what the customer writes, by  *)
(* their answer to a menu of the businesses, or because a business wrote   *)
(* to them first.  Who cannot be placed is asked, a few times, and then    *)
(* handed to a person, if there is one.  One conversation; its messages    *)
(* are handled one at a time, each in one transaction, and may come again. *)
(* Meanwhile businesses leave the number and join it, and people go on and *)
(* off shift.                                                              *)
(***************************************************************************)
EXTENDS Integers, FiniteSets

CONSTANTS Businesses, NoOne,
          Owner,        \* the business that owns the number
          Order,        \* Businesses -> the place of their names in the alphabet
          Messages, NoMessage,
          Texts,        \* what a customer may write, see Text
          Starts,       \* who is on the number, on shift and has written first
          MaxAttempts,  \* menus before a person takes over (MAX_TRIAGE_ATTEMPTS, 3)
          MaxChanges,   \* bound: businesses that come and go, shifts that change
          MaxTroubles   \* bound: reads, writes and sends that fail, workers that die

(* What the switchboard makes of a text: a number it begins with (0: none),*)
(* the business it names, those whose link or keywords decide for it.      *)
Text  == [number : Nat, names : Businesses \cup {NoOne}, about : SUBSET Businesses]
Staff == {"none", "off", "on"}    \* nobody active; nobody on shift; somebody on shift
Start == [active : SUBSET Businesses, listed : SUBSET Businesses,
          staff : [Businesses -> Staff], wrote : Businesses \cup {NoOne}]

ASSUME ConstantsAssumption ==
  /\ IsFiniteSet(Businesses) /\ Owner \in Businesses /\ NoOne \notin Businesses
  /\ Order \in [Businesses -> Nat] /\ \A b, c \in Businesses : Order[b] = Order[c] => b = c
  /\ NoMessage \notin Messages /\ Texts \subseteq Text
  /\ Starts \subseteq Start /\ \A s \in Starts : s.listed \subseteq s.active /\ Owner \in s.active
  /\ MaxAttempts \in Nat /\ MaxChanges \in Nat /\ MaxTroubles \in Nat

VARIABLES
  \* the world
  active,     \* businesses with is_active
  listed,     \* those on the number
  staff,
  wrote,      \* who has sent the customer a campaign of late
  \* the customer
  said,       \* the text of each message that is not settled
  met,        \* each message: unsaid | said | open (stored, no metric row since) | settled
  menu,       \* the options on the screen, each a number and a business
  screen,     \* how old that menu is: none | fresh | old
  relisted,   \* whether the businesses on the number have changed since
  \* the database
  conv,       \* the conversation's row, committed
  \* the message in hand
  cur, pc,
  tx,         \* the conversation's row as its transaction has it
  list, seen, \* the businesses and the routing it has read
  why,        \* how it came to place the conversation: fresh | gone | blind
  target, via,
  serving,
  due,        \* whether it leaves a metric row
  told,       \* what the customer was told of a person: none | person | nobody
  shaken,     \* whether shifts changed, or something failed, under it
  \* history and bounds
  asked,      \* menus that left since the conversation was last routed
  repeats,    \* of those, the ones sent beside a fresh one
  changes, troubles

worldVars    == <<active, listed, staff, wrote>>
customerVars == <<said, met, menu, screen, relisted>>
handVars     == <<cur, tx, list, seen, why, target, via, serving, due, told, shaken>>
boundVars    == <<asked, repeats, changes, troubles>>
vars == <<worldVars, customerVars, conv, handVars, pc, boundVars>>

Blank  == [number |-> 0, names |-> NoOne, about |-> {}]
Row    == [routed : Businesses \cup {NoOne}, prompt : {"never", "fresh", "old"}, attempts : Nat, handoff : BOOLEAN]
NewRow == [routed |-> NoOne, prompt |-> "never", attempts |-> 0, handoff |-> FALSE]

Init ==
  /\ \E s \in Starts : active = s.active /\ listed = s.listed /\ staff = s.staff /\ wrote = s.wrote
  /\ said = [m \in Messages |-> Blank] /\ met = [m \in Messages |-> "unsaid"]
  /\ menu = {} /\ screen = "none" /\ relisted = FALSE
  /\ conv = NewRow
  /\ cur = NoMessage /\ pc = "idle" /\ tx = NewRow /\ list = {} /\ seen = NewRow
  /\ why = "fresh" /\ target = NoOne /\ via = "none" /\ serving = Owner
  /\ due = TRUE /\ told = "none" /\ shaken = FALSE
  /\ asked = 0 /\ repeats = 0 /\ changes = 0 /\ troubles = 0

-----------------------------------------------------------------------------
(* The world.                                                              *)

Changes == changes < MaxChanges /\ changes' = changes + 1
Aside   == UNCHANGED <<said, met, menu, screen, cur, pc, tx, list, seen, why, target, via, serving,
                       due, told, asked, repeats, troubles>>

Deactivate(b) ==
  /\ b # Owner /\ b \in active /\ Changes
  /\ active' = active \ {b} /\ listed' = listed \ {b}
  /\ relisted' = TRUE
  /\ UNCHANGED <<staff, wrote, conv, shaken>> /\ Aside

(* A business that shared the owner's number is given its own again: the   *)
(* switch of migration 009, by hand.                                       *)
LeaveNumber(b) ==
  /\ b # Owner /\ b \in listed /\ Changes
  /\ listed' = listed \ {b} /\ relisted' = TRUE
  /\ UNCHANGED <<active, staff, wrote, conv, shaken>> /\ Aside

JoinNumber(b) ==
  /\ b \notin listed /\ Changes
  /\ active' = active \cup {b} /\ listed' = listed \cup {b} /\ relisted' = TRUE
  /\ UNCHANGED <<staff, wrote, conv, shaken>> /\ Aside

ChangeShift(b) ==
  /\ Changes
  /\ \E s \in Staff \ {staff[b]} : staff' = [staff EXCEPT ![b] = s]
  /\ shaken' = (pc # "idle")
  /\ UNCHANGED <<active, listed, wrote, conv, relisted>> /\ Aside

(* TRIAGE_REPEAT_WINDOW_MS is over.                                        *)
Older(row) == [row EXCEPT !.prompt = IF @ = "fresh" THEN "old" ELSE @]

WindowPasses ==
  /\ screen = "fresh"
  /\ screen' = "old" /\ conv' = Older(conv) /\ tx' = Older(tx) /\ seen' = Older(seen)
  /\ UNCHANGED <<worldVars, said, met, menu, relisted, cur, list, why, target, via, serving, due,
                 told, shaken, pc, boundVars>>

(* The customer writes; a person gives the conversation back to the agent. *)
Say(m) ==
  /\ met[m] = "unsaid"
  /\ \E t \in Texts : said' = [said EXCEPT ![m] = t]
  /\ met' = [met EXCEPT ![m] = "said"]
  /\ UNCHANGED <<worldVars, menu, screen, relisted, conv, handVars, pc, boundVars>>

GiveBack ==
  /\ pc = "idle" /\ conv.handoff
  /\ conv' = [conv EXCEPT !.handoff = FALSE]
  /\ UNCHANGED <<worldVars, customerVars, handVars, pc, boundVars>>

-----------------------------------------------------------------------------
(* A message is taken, and ends.                                           *)

At(step)   == pc = step
Goes(step) == pc' = step
Fails      == troubles < MaxTroubles /\ troubles' = troubles + 1
OrFails(A) == \/ A /\ UNCHANGED troubles
              \/ Fails
OnShift(b) == staff[b] = "on"

(* MUTANT: whoever owns the number answers. *)
OwnerAnswers(row) == Owner

(* businessAnsweringFor.                                                   *)
Answering(row) == IF row.routed # NoOne THEN row.routed ELSE Owner

(* recordInboundMessage; a message that was settled is left alone.         *)
Take(m) ==
  /\ At("idle") /\ met[m] \in {"said", "open"}
  /\ cur' = m /\ tx' = conv /\ Goes("custody")
  /\ UNCHANGED <<worldVars, customerVars, conv, list, seen, why, target, via, serving, due,
                 told, shaken, boundVars>>

LetsGo ==
  /\ Goes("idle") /\ cur' = NoMessage /\ tx' = NewRow /\ list' = {} /\ seen' = NewRow
  /\ why' = "fresh" /\ target' = NoOne /\ via' = "none" /\ serving' = Owner
  /\ due' = TRUE /\ told' = "none" /\ shaken' = FALSE

(* A metric row settles every message of the conversation stored by then.  *)
Settled(counted) ==
  [m \in Messages |-> IF counted /\ (m = cur \/ met[m] = "open") THEN "settled"
                      ELSE IF m = cur THEN "open" ELSE met[m]]

RoutedAnew == tx.routed # conv.routed \/ tx.attempts < conv.attempts

Commit ==
  /\ At("commit")
  /\ conv' = tx
  /\ \E counted \in {due, FALSE} :
       /\ met' = Settled(counted) /\ OrFails(counted = due)
       /\ said' = [m \in Messages |-> IF met'[m] = "settled" THEN Blank ELSE said[m]]
  /\ IF RoutedAnew THEN asked' = 0 /\ repeats' = 0 /\ screen' = "none" /\ menu' = {}
                   ELSE UNCHANGED <<asked, repeats, screen, menu>>
  /\ LetsGo
  /\ UNCHANGED <<worldVars, relisted, changes>>

(* The worker dies, or the commit is refused: the job is tried again.      *)
Undone ==
  /\ ~At("idle") /\ Fails
  /\ LetsGo
  /\ UNCHANGED <<worldVars, customerVars, conv, asked, repeats, changes>>

-----------------------------------------------------------------------------
(* Custody: a handoff nobody can take is released.                         *)

Same == UNCHANGED <<worldVars, customerVars, conv, cur, asked, repeats, changes>>
NoPlacing == UNCHANGED <<list, seen, why, target, via>>
NoWords   == UNCHANGED <<told, shaken>>

(* Somebody works there, if not at this hour.                              *)
SomebodyCanHandle(b) == staff[b] # "none"

AgentHasIt ==
  /\ At("custody") /\ ~tx.handoff
  /\ Goes("look") /\ Same /\ NoPlacing /\ NoWords
  /\ UNCHANGED <<tx, serving, due, troubles>>

PersonHasIt ==
  /\ At("custody") /\ tx.handoff
  /\ OrFails(SomebodyCanHandle(Answering(tx)))
  /\ Goes("commit") /\ Same /\ NoPlacing /\ NoWords
  /\ UNCHANGED <<tx, serving, due>>

(* The routing may fail to be read, which asks for the owner's people; and *)
(* the release to be written: the agent answers all the same.              *)
ReleaseStale ==
  /\ At("custody") /\ tx.handoff
  /\ \/ /\ ~SomebodyCanHandle(Answering(tx))
        /\ tx' = [tx EXCEPT !.handoff = FALSE] /\ UNCHANGED <<troubles, shaken>>
     \/ /\ ~SomebodyCanHandle(Owner) \/ ~SomebodyCanHandle(Answering(tx))
        /\ Fails /\ shaken' = TRUE
        /\ tx' = [tx EXCEPT !.handoff = @ /\ SomebodyCanHandle(Answering(tx))] \/ UNCHANGED tx
  /\ Goes("look") /\ Same /\ NoPlacing
  /\ UNCHANGED <<serving, due, told>>

-----------------------------------------------------------------------------
(* resolveServingOrganization.                                             *)

Serves(b) == serving' = b /\ Goes("serve")

Unshared ==
  /\ At("look")
  /\ OrFails(Cardinality(listed) < 2)
  /\ Serves(Owner) /\ Same /\ NoPlacing /\ NoWords
  /\ UNCHANGED <<tx, due>>

(* The routing may fail to be read: the conversation looks like a new one. *)
LookUp ==
  /\ At("look") /\ Cardinality(listed) >= 2
  /\ list' = listed
  /\ \/ seen' = tx /\ UNCHANGED <<why, troubles>>
     \/ seen' = NewRow /\ why' = "blind" /\ Fails
  /\ Goes("place") /\ Same /\ NoWords
  /\ UNCHANGED <<tx, target, via, serving, due>>

(* Routing is sticky.                                                      *)
StaysRouted ==
  /\ At("place") /\ seen.routed # NoOne
  /\ \/ seen.routed \in active /\ Serves(seen.routed) /\ UNCHANGED troubles
     \/ Serves(Owner) /\ Fails
  /\ Same /\ NoPlacing /\ NoWords
  /\ UNCHANGED <<tx, due>>

(* MUTANT: a business that could not be loaded is taken for gone. *)
GoneOrUnread == OrFails(seen.routed \notin active)

(* findOrganizationById found no such business.                            *)
Gone == seen.routed \notin active /\ UNCHANGED troubles

RoutedIsGone ==
  /\ At("place") /\ seen.routed # NoOne /\ Gone
  /\ seen' = [seen EXCEPT !.routed = NoOne]
  /\ why' = IF seen.routed \in active THEN why ELSE "gone"
  /\ Same /\ NoWords
  /\ UNCHANGED <<pc, tx, list, target, via, serving, due>>

(* A number is the place on the whole list, by name.                       *)
Place(b, L)   == Cardinality({c \in L : Order[c] <= Order[b]})
Answer(t, L)  == IF t.number \in 1..Cardinality(L) THEN {b \in L : Place(b, L) = t.number}
                                                   ELSE {b \in L : b = t.names}
Picked     == IF seen.prompt = "never" THEN {} ELSE Answer(said[cur], list)
Matching   == said[cur].about \cap list
Decisive   == IF Cardinality(Matching) = 1 THEN Matching ELSE {}

Routes(b, how) == target' = b /\ via' = how /\ Goes("route")

PlaceByAnswer ==
  /\ At("place") /\ seen.routed = NoOne
  /\ \E b \in Picked : Routes(b, "answer")
  /\ Same /\ NoWords
  /\ UNCHANGED <<tx, list, seen, why, serving, due, troubles>>

PlaceByWords ==
  /\ At("place") /\ seen.routed = NoOne /\ Picked = {}
  /\ \E b \in Decisive : Routes(b, "words")
  /\ Same /\ NoWords
  /\ UNCHANGED <<tx, list, seen, why, serving, due, troubles>>

Unplaced == At("place") /\ seen.routed = NoOne /\ Picked = {} /\ Decisive = {}

PlaceByCampaign ==
  /\ Unplaced /\ wrote \in list /\ Routes(wrote, "campaign")
  /\ Same /\ NoWords
  /\ UNCHANGED <<tx, list, seen, why, serving, due, troubles>>

(* No business wrote first, or who did could not be read.                  *)
Unplaceable == Unplaced /\ OrFails(wrote \notin list)

(* MUTANT: the menu on the screen is asked for again. *)
OnScreenNever(row) == FALSE

(* The menu is still in front of them.                                     *)
OnScreen(row) == row.prompt = "fresh"

Exhausted ==
  /\ Unplaceable /\ seen.attempts >= MaxAttempts
  /\ due' = FALSE /\ Goes("fallback")
  /\ Same /\ NoPlacing /\ NoWords /\ UNCHANGED <<tx, serving>>

WaitForChoice ==
  /\ Unplaceable /\ seen.attempts < MaxAttempts /\ OnScreen(seen)
  /\ due' = FALSE /\ Goes("commit")
  /\ Same /\ NoPlacing /\ NoWords /\ UNCHANGED <<tx, serving>>

AskWhichBusiness ==
  /\ Unplaceable /\ seen.attempts < MaxAttempts /\ ~OnScreen(seen)
  /\ due' = FALSE /\ Goes("ask")
  /\ Same /\ NoPlacing /\ NoWords /\ UNCHANGED <<tx, serving>>

(* MUTANT: a narrowed menu numbers its own options from one. *)
NumberedFromOne(L, whole) == {<<Place(b, L), b>> : b \in L}

(* buildTriageMessage: each option carries its place in the whole list.    *)
Numbered(L, whole) == {<<Place(b, whole), b>> : b \in L}

(* Those that matched are asked about, unless that is none or all.         *)
Offered == IF Cardinality(Matching) >= 2 /\ Matching # list THEN Matching ELSE list

MenuLeaves ==
  /\ At("ask")
  /\ menu' = Numbered(Offered, list) /\ screen' = "fresh" /\ relisted' = (list # listed)
  /\ asked' = asked + 1 /\ repeats' = IF screen = "fresh" THEN repeats + 1 ELSE repeats
  /\ Goes("note")
  /\ NoPlacing /\ NoWords
  /\ UNCHANGED <<worldVars, said, met, conv, cur, tx, serving, due, changes, troubles>>

MenuFails ==
  /\ At("ask") /\ Fails /\ Goes("commit")
  /\ Same /\ NoPlacing /\ NoWords /\ UNCHANGED <<tx, serving, due>>

(* recordTriagePrompt, which may fail.  Its now() is no later than the     *)
(* menu, and ages with it.                                                 *)
NoteMenu ==
  /\ At("note") /\ Goes("commit")
  /\ \/ tx' = [tx EXCEPT !.prompt = screen, !.attempts = @ + 1] /\ UNCHANGED troubles
     \/ Fails /\ UNCHANGED tx
  /\ Same /\ NoPlacing /\ NoWords /\ UNCHANGED <<serving, due>>

(* commitRoute: the business may be gone by now, or fail to be loaded or   *)
(* written; it serves the message if it could be loaded.                   *)
CommitRoute ==
  /\ At("route")
  /\ \/ /\ target \in active /\ Serves(target)
        /\ \/ tx' = [tx EXCEPT !.routed = target, !.prompt = "never", !.attempts = 0] /\ UNCHANGED troubles
           \/ Fails /\ UNCHANGED tx
     \/ /\ OrFails(target \notin active)
        /\ Serves(Owner) /\ UNCHANGED tx
  /\ Same /\ NoPlacing /\ NoWords /\ UNCHANGED due

-----------------------------------------------------------------------------
(* The business serves the customer.                                       *)

(* Answered; if what follows the sending fails, a person is called.        *)
AgentReplies ==
  /\ At("serve")
  /\ \/ Goes("commit") /\ UNCHANGED troubles
     \/ Goes("flag") /\ Fails
  /\ Same /\ NoPlacing /\ NoWords /\ UNCHANGED <<tx, serving, due>>

(* The colleague the conversation is with answers for themselves.          *)
TwinStandsDown ==
  /\ At("serve") /\ Goes("flag")
  /\ Same /\ NoPlacing /\ NoWords /\ UNCHANGED <<tx, serving, due, troubles>>

Says(somebody) == told' = IF somebody THEN "person" ELSE "nobody"

(* A reply that governance blocks: one look at the shift decides what is   *)
(* said and done; one that fails counts as somebody being there.           *)
ReplyBlocked ==
  /\ At("serve")
  /\ \E somebody \in {OnShift(serving), TRUE} :
       /\ Says(somebody)
       /\ \/ /\ tx' = [tx EXCEPT !.handoff = @ \/ somebody] /\ Goes("commit")
             /\ OrFails(somebody = OnShift(serving)) /\ UNCHANGED shaken
          \/ /\ somebody = OnShift(serving)
             /\ Fails /\ shaken' = TRUE /\ Goes("flag") /\ UNCHANGED tx
  /\ Same /\ NoPlacing /\ UNCHANGED <<serving, due>>

(* No agent, or its reply fails.                                           *)
NoReply ==
  /\ At("serve") /\ Goes("fallback")
  /\ Same /\ NoPlacing /\ NoWords /\ UNCHANGED <<tx, serving, due, troubles>>

(* sendFallbackBestEffort: the words are by the owner's shift.             *)
Fallback ==
  /\ At("fallback") /\ Goes("flag")
  /\ \/ Says(OnShift(Owner)) /\ UNCHANGED <<shaken, troubles>>
     \/ Says(TRUE) /\ shaken' = TRUE /\ Fails
  /\ Same /\ NoPlacing /\ UNCHANGED <<tx, serving, due>>

(* Not sent; or sent, and then something failed.                           *)
FallbackFails ==
  /\ At("fallback") /\ Fails /\ Goes("commit")
  /\ \/ NoWords
     \/ Says(OnShift(Owner)) /\ shaken' = TRUE
  /\ Same /\ NoPlacing /\ UNCHANGED <<tx, serving, due>>

(* flagHandoffBestEffort: the handoff is by the shift of who answers.      *)
FlagHandoff ==
  /\ At("flag") /\ Goes("commit")
  /\ \/ tx' = [tx EXCEPT !.handoff = @ \/ OnShift(Answering(tx))] /\ UNCHANGED <<shaken, troubles>>
     \/ Fails /\ shaken' = TRUE /\ tx' \in {tx, [tx EXCEPT !.handoff = TRUE]}
  /\ Same /\ NoPlacing /\ UNCHANGED <<serving, due, told>>

-----------------------------------------------------------------------------
Handles == \/ AgentHasIt \/ PersonHasIt \/ ReleaseStale
           \/ Unshared \/ LookUp \/ StaysRouted \/ RoutedIsGone
           \/ PlaceByAnswer \/ PlaceByWords \/ PlaceByCampaign
           \/ Exhausted \/ WaitForChoice \/ AskWhichBusiness \/ MenuLeaves \/ MenuFails \/ NoteMenu
           \/ CommitRoute
           \/ AgentReplies \/ TwinStandsDown \/ ReplyBlocked \/ NoReply
           \/ Fallback \/ FallbackFails \/ FlagHandoff
           \/ Commit

Next ==
  \/ \E b \in Businesses : Deactivate(b) \/ LeaveNumber(b) \/ JoinNumber(b) \/ ChangeShift(b)
  \/ \E m \in Messages : Say(m) \/ Take(m)
  \/ WindowPasses \/ GiveBack
  \/ Handles \/ Undone

Spec == Init /\ [][Next]_vars

-----------------------------------------------------------------------------
(* Properties.                                                             *)

Hand ==
  /\ cur \in Messages \cup {NoMessage} /\ tx \in Row /\ seen \in Row
  /\ list \subseteq Businesses /\ why \in {"fresh", "gone", "blind"}
  /\ target \in Businesses \cup {NoOne} /\ via \in {"none", "answer", "words", "campaign"}
  /\ serving \in Businesses /\ due \in BOOLEAN
  /\ told \in {"none", "person", "nobody"} /\ shaken \in BOOLEAN

(* Every variable keeps its type; a step after the taking has a message in  *)
(* hand, and the noting of a menu has it on the screen.                    *)
TypeOK ==
  /\ active \subseteq Businesses /\ listed \subseteq active
  /\ staff \in [Businesses -> Staff] /\ wrote \in Businesses \cup {NoOne}
  /\ said \in [Messages -> Text] /\ met \in [Messages -> {"unsaid", "said", "open", "settled"}]
  /\ menu \in SUBSET (Nat \X Businesses) /\ screen \in {"none", "fresh", "old"} /\ relisted \in BOOLEAN
  /\ conv \in Row /\ Hand
  /\ pc \in {"idle", "custody", "look", "place", "route", "ask", "note",
             "serve", "fallback", "flag", "commit"}
  /\ pc # "idle" => cur \in Messages
  /\ pc = "note" => screen # "none"
  /\ asked \in Nat /\ repeats \in Nat /\ changes \in 0..MaxChanges /\ troubles \in 0..MaxTroubles

(* Routing is sticky: a conversation that a business serves moves to        *)
(* another only when that business has left the platform, or when the       *)
(* routing itself could not be read; not because the business could not be  *)
(* loaded, and not for what the customer writes.                           *)
StaysWithItsBusiness ==
  [][conv.routed # NoOne /\ conv'.routed # conv.routed => why \in {"gone", "blind"}]_vars

(* A message places a conversation as an answer only when a menu left, and  *)
(* a number on that menu, narrowed or not, is the business it was shown     *)
(* beside, unless businesses have come or gone since.                      *)
ReadsTheMenuShown ==
  pc = "route" /\ via = "answer" =>
    LET n == said[cur].number IN
    /\ screen # "none"
    /\ ~relisted => \A b \in Businesses : <<n, b>> \in menu => b = target

(* A customer is asked at most MaxAttempts times before a person is called, *)
(* and not again while a menu is in front of them, but for what failed:     *)
(* every menu too many is paid for by a failure.                           *)
AskedPatiently == asked <= MaxAttempts + troubles /\ repeats <= troubles

(* The agent takes a conversation back from a person by itself only when    *)
(* the business that answers it, which need not own the number, has nobody *)
(* who could; unless its people changed, or something failed, meanwhile.   *)
HandoffsAreKept ==
  [][pc = "commit" /\ conv.handoff /\ ~conv'.handoff =>
       LET answers == IF conv.routed = NoOne THEN Owner ELSE conv.routed
       IN  shaken \/ staff[answers] = "none"]_vars

(* What the customer is told of a person and what is done agree: a person   *)
(* is promised exactly when the agent stands down ("the agent's words and   *)
(* the platform's behaviour cannot disagree", processor.ts:1277).  Not so:  *)
(* the words follow the shift of the number's owner, the handoff that of    *)
(* the business that answers.                                              *)
WordsAndDeedsAgree ==
  pc = "commit" /\ told # "none" /\ ~shaken => (told = "person" <=> tx.handoff)
=============================================================================
