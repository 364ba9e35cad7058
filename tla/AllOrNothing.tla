--------------------------- MODULE AllOrNothing ---------------------------
(***************************************************************************)
(* What the code around a piece of work may rely on.  Told the work is     *)
(* done, what it was told is written is there.  Told that nothing was      *)
(* saved, nothing is there.  Told only that something failed, it does not  *)
(* know which of the two it is, for the answer to a commit can be lost;    *)
(* but never is a part of the work there.                                  *)
(***************************************************************************)
CONSTANTS Writes

VARIABLES work,     \* what the work has been told is written and has not given up
          spare,    \* what it gave up and may be there all the same
          db,       \* what is there
          outcome   \* open | ok | error | nothing was saved: undone (it is told so) or
                    \* lost (it is told it is done, and the log says it is not)

vars == <<work, spare, db, outcome>>

Init == work = {} /\ spare = {} /\ db = {} /\ outcome = "open"

GoesOn ==
  /\ outcome = "open"
  /\ work' \in SUBSET Writes /\ spare' \in SUBSET Writes
  /\ UNCHANGED <<db, outcome>>

(* It is saved, whole; the answer that says so arrives, or not.            *)
Saves ==
  /\ outcome = "open" /\ outcome' \in {"ok", "error"}
  /\ db' \in SUBSET Writes /\ work \subseteq db' /\ db' \subseteq work \cup spare
  /\ UNCHANGED <<work, spare>>

Fails ==
  /\ outcome = "open" /\ outcome' \in {"error", "undone", "lost"}
  /\ UNCHANGED <<work, spare, db>>

Next == GoesOn \/ Saves \/ Fails

Spec == Init /\ [][Next]_vars
===========================================================================
