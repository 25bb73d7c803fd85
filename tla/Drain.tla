------------------------------- MODULE Drain -------------------------------
(***************************************************************************)
(* What an EventManager promises about the operations given to it, without *)
(* rings, counters and coroutines: an operation is accepted while the      *)
(* manager is open, is handed to the kernel at most once, ends at most     *)
(* once, and a manager that is closing accepts nothing but the operation   *)
(* that cancels the others, and is closed only when no operation that was  *)
(* handed over is left.  Operations that were accepted and not handed over *)
(* by then are abandoned.                                                  *)
(***************************************************************************)
CONSTANTS
  Ops,     \* operations
  Cancel   \* the one that cancels the others

VARIABLES
  accepted,     \* queued, and not handed over
  outstanding,  \* handed over, and not ended
  state         \* "open", "closing" or "closed"

vars == <<accepted, outstanding, state>>

Init == accepted = {} /\ outstanding = {} /\ state = "open"

\* Of the operations in q some, or none, are handed over.
HandOver(q) ==
  /\ accepted' \subseteq q
  /\ outstanding' = outstanding \cup (q \ accepted')

Accept ==
  /\ state = "open" /\ UNCHANGED state
  /\ \E o \in Ops \ (accepted \cup outstanding \cup {Cancel}) : HandOver(accepted \cup {o})

Submit ==
  /\ state # "closed" /\ UNCHANGED state
  /\ HandOver(accepted)

\* The closing state, or, when nothing is outstanding, the closed one.
Drained == state' \in {"closing", "closed"} /\ (state' = "closed" => outstanding' = {})

Close ==
  /\ state = "open" /\ Drained
  /\ \E new \in {{}, {Cancel}} : HandOver(accepted \cup new)

End ==
  /\ state # "closed"
  /\ \E o \in outstanding : outstanding' = outstanding \ {o}
  /\ UNCHANGED accepted
  /\ UNCHANGED state \/ (state = "closing" /\ Drained)

Next == Accept \/ Submit \/ Close \/ End

Spec == Init /\ [][Next]_vars
=============================================================================
