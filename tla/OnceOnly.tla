------------------------------ MODULE OnceOnly ------------------------------
(***************************************************************************)
(* What a message promises, whatever carries it: it leaves at most once,   *)
(* it is decided at most once, and the decision says whether it left, as   *)
(* far as the sender was told.  A channel can take a message and its       *)
(* answer be lost: then "failed" says only what the sender heard.          *)
(* "unknown" is the honest answer when the outcome could not be written    *)
(* down.  A system whose parts may fail can forget, before the message is  *)
(* decided, that it left; nothing else gives it a second chance, and a     *)
(* lost answer does not.                                                   *)
(***************************************************************************)
EXTENDS Naturals

CONSTANTS Messages,
          MayForget   \* whether workers may die, or their writes fail

VARIABLES left,      \* how often each message has left, as far as is known
          decision,  \* what the record says of each
          unheard    \* those that left and whose sender was never told

vars == <<left, decision, unheard>>

Decision == {"open", "sent", "failed", "cancelled", "unknown"}

(* A decision may not contradict what the sender knows of what happened. *)
Truthful(m, d) == /\ d = "sent" => left[m] = 1
                  /\ d = "failed" => left[m] = 0 \/ m \in unheard
                  /\ d = "cancelled" => left[m] = 0

Init == /\ left = [m \in Messages |-> 0]
        /\ decision = [m \in Messages |-> "open"]
        /\ unheard = {}

Leave(m) == /\ decision[m] = "open"
            /\ left[m] = 0
            /\ left' = [left EXCEPT ![m] = 1]
            /\ unheard' \in {unheard, unheard \cup {m}}
            /\ UNCHANGED decision

(* Several open messages may be decided together, while others, which stay *)
(* open, are forgotten.                                                    *)
Decisions ==
  /\ decision' \in [Messages -> Decision]
  /\ \A m \in Messages : decision'[m] # decision[m] => decision[m] = "open" /\ Truthful(m, decision'[m])

Decide == Decisions /\ UNCHANGED <<left, unheard>>

Forget == /\ MayForget
          /\ Decisions
          /\ \E F \in SUBSET Messages :
               /\ \A m \in F : decision[m] = "open" /\ decision'[m] = "open"
               /\ left' = [m \in Messages |-> IF m \in F THEN 0 ELSE left[m]]
               /\ unheard' = unheard \ F

Next == Decide \/ Forget \/ \E m \in Messages : Leave(m)

Spec == Init /\ [][Next]_vars
=============================================================================
